---- MODULE Spec2Model ----
(***************************************************************************)
(* Deal aggregation pipeline of mortgage-optimizer-backend:                *)
(*   src/scrapers/moneySuperMarket.js  scrape()        (lines 21-115)       *)
(*   src/server.js                     runAllScrapers, saveDeals,           *)
(*                                     logScrape, GET /api/deals/search     *)
(*                                                                          *)
(* Numbers scraped from a page are JavaScript numbers; they are modelled in *)
(* thousandths (4191 is 4.191).  The DECIMAL(p,2) columns of the deals      *)
(* table hold hundredths (419 is 4.19), so storing a number rounds it.      *)
(* Every await of the code is one step of a task; several tasks (ingestion  *)
(* passes, search requests) interleave at these steps.                      *)
(***************************************************************************)
EXTENDS Integers, Sequences, FiniteSets, TLC

VARIABLES
    deals,        \* table deals: sequence of rows in physical (insertion) order
    scrape_logs,  \* table scrape_logs: sequence of rows in insertion order
    clock,        \* CURRENT_TIMESTAMP of the database
    runs,         \* number of ingestion passes triggered so far
    pc,           \* per task: the await the task is suspended at
    browser,      \* per task: the `browser` local of scrape()
    scrapeDeals,  \* per task: the `deals` local of scrape()
    caught,       \* per task: message of the error caught inside scrape() ("" if none)
    scrapeResult, \* per task: how the scrape() promise settled
    msmDeals,     \* per pass: `msmDeals` of runAllScrapers / `deals` of saveDeals
    idx,          \* per pass: position of the for-of loop of saveDeals (1-based)
    savedCount,   \* per pass: `savedCount` of saveDeals
    results,      \* per pass: `results` of runAllScrapers
    outcomes,     \* per pass (history): for each record of the batch so far, whether its upsert succeeded
    audit,        \* per pass (history): the logScrape calls of the pass, each with the row and whether it was written
    query,        \* per search: req.path and req.query
    stage,        \* per search: "try" in the try block of the handler, "catch" in its catch block
    response,     \* per search: what res.json / res.status(500).json sent
    sawEmpty,     \* per search (history): the deals table was empty when the SELECT ran
    acquisitions, \* per search (history): the calls of scrape() the handler made
    order,        \* two records upserted in both orders into two copies of one table
    metrics,      \* a deal and a baseline handed to addMetrics, and what it returned
    save          \* a record handed to saveDeals with an empty table, and the table it left

(***************************** bounds ***************************************)
MaxPasses == 1      \* ingestion passes that may be in flight together
MaxRuns == 2        \* ingestion passes triggered in one behaviour
MaxCards == 2       \* result cards on one scraped page
MaxClock == 2       \* instants of the database clock
MaxSearches == 1    \* read requests (search, listing) that may be in flight together
MaxFilters == 1     \* filter parameters one search request carries
MaxSeed == 2        \* upserts that built the table a search specification starts from
MaxOverlap == 2     \* ingestion passes that overlap in the overlap specification

(*********************** JavaScript / SQL values ****************************)
\* parseFloat of text without a number (and the `null` of a missing rate element,
\* which the code treats alike: both are falsy).
NaN == -1
\* A property the object does not have.
Undefined == -2
\* SQL NULL in a numeric column.
Null == -3
\* querySelector found no element.
NoElement == "<no element>"

Passes == {<<"pass", i>> : i \in 1..MaxPasses}
\* The read requests (search, listing) in flight.
Searches == {<<"search", i>> : i \in 1..MaxSearches}
Tasks == Passes \cup Searches
\* The task is a call of runAllScrapers (and not a request handler).
IsPass(t) == t[1] = "pass"

\* `x || d` on a number: 0, NaN, undefined and null are falsy.
OrNum(x, d) == IF x \in {0, NaN, Undefined, Null} THEN d ELSE x
\* `x || d` on a string: undefined and "" are falsy.
OrStr(x, d) == IF x \in {"", "undefined"} THEN d ELSE x
\* `deal.flag || false`: an object without the property gives false.
OrFlag(deal, flag) == IF flag \in DOMAIN deal THEN deal[flag] ELSE FALSE

Pad2(x) == IF x < 10 THEN "0" \o ToString(x) ELSE ToString(x)
Pad3(x) == IF x < 10 THEN "00" \o ToString(x) ELSE IF x < 100 THEN "0" \o ToString(x) ELSE ToString(x)
\* Number.prototype.toString of a number given in thousandths: 4250 is "4.25".
NumberText(m) ==
    IF m = NaN THEN "NaN"
    ELSE LET i == m \div 1000
             f == m % 1000
         IN  IF f = 0 THEN ToString(i)
             ELSE IF f % 100 = 0 THEN ToString(i) \o "." \o ToString(f \div 100)
             ELSE IF f % 10 = 0 THEN ToString(i) \o "." \o Pad2(f \div 10)
             ELSE ToString(i) \o "." \o Pad3(f)

(**************************** the scraped page ******************************)
\* What the selectors of one result card yield: the parsed rate, fee and LTV
\* texts (NaN when the text holds no number or, for the rate, the element is
\* missing), and the lender and product texts (NoElement when missing).
Cards ==
    { [rate |-> 4191, lender |-> "HSBC", product |-> "2 Year Fixed", fee |-> 999000, ltv |-> 60000],
      [rate |-> 4194, lender |-> "HSBC", product |-> "2 Year Fixed", fee |-> NaN, ltv |-> NaN],
      [rate |-> 4250, lender |-> NoElement, product |-> NoElement, fee |-> 0, ltv |-> 75000],
      [rate |-> 4250, lender |-> "HSBC", product |-> "2 Year Fixed", fee |-> 999000, ltv |-> 6075000],
      [rate |-> 4, lender |-> "HSBC", product |-> "2 Year Fixed", fee |-> 0, ltv |-> 75000],
      [rate |-> NaN, lender |-> "HSBC", product |-> "2 Year Fixed", fee |-> 999000, ltv |-> 60000],
      [rate |-> 0, lender |-> "HSBC", product |-> "2 Year Fixed", fee |-> 999000, ltv |-> 60000],
      [rate |-> 15000, lender |-> "HSBC", product |-> "2 Year Fixed", fee |-> 999000, ltv |-> 60000] }

SeqsUpTo(S, n) == UNION {[1..k -> S] : k \in 0..n}
Pages == SeqsUpTo(Cards, MaxCards)

\* `rate && rate > 0 && rate < 15`
RateAccepted(rate) == rate /= NaN /\ rate /= 0 /\ rate > 0 /\ rate < 15000

\* The object pushed for one card.
CardDeal(card) ==
    [ lenderName |-> IF card.lender = NoElement THEN "Unknown Lender" ELSE card.lender,
      productName |-> IF card.product = NoElement
                      THEN NumberText(card.rate) \o "% Mortgage" ELSE card.product,
      interestRate |-> card.rate,
      arrangementFee |-> OrNum(card.fee, 0),
      maxLTV |-> OrNum(card.ltv, 75000),
      dealType |-> "Fixed",
      termYears |-> 2000,
      freeValuation |-> FALSE,
      freeLegalWork |-> FALSE,
      lenderType |-> "UK Mainstream",
      valuationFee |-> Undefined,
      legalFees |-> Undefined,
      cashback |-> Undefined,
      overpaymentAllowance |-> Undefined,
      earlyRepaymentCharges |-> "undefined" ]

RECURSIVE ExtractFrom(_, _)
ExtractFrom(page, i) ==
    IF i > Len(page) THEN <<>>
    ELSE IF RateAccepted(page[i].rate)
         THEN <<CardDeal(page[i])>> \o ExtractFrom(page, i + 1)
         ELSE ExtractFrom(page, i + 1)
\* page.evaluate(...): the cards of the page in document order, those without an
\* accepted rate skipped.
Extract(page) == ExtractFrom(page, 1)

(***************************** the database *********************************)
\* A value in thousandths stored in a DECIMAL(p,2) column: rounded half up to
\* hundredths (all values here are non-negative).
ToDecimal2(m) == IF m = Null THEN Null ELSE (m + 5) \div 10
RECURSIVE Pow10(_)
Pow10(n) == IF n = 0 THEN 1 ELSE 10 * Pow10(n - 1)
\* "numeric field overflow": more than p-2 digits before the point.
NumericOverflow(c, p) == c /= Null /\ (c \div 100) >= Pow10(p - 2)
\* A value in thousandths stored in an INT column (rounded to nearest).
ToInt(m) == (m + 500) \div 1000

\* A parameter array with 5 years as the term of a record that has none.
DealParamsTerm5(deal, source) ==
    [ lender_name |-> deal.lenderName,
      product_name |-> deal.productName,
      interest_rate |-> deal.interestRate,
      deal_type |-> OrStr(deal.dealType, "Fixed"),
      term_years |-> OrNum(deal.termYears, 5000),
      max_ltv |-> OrNum(deal.maxLTV, 75000),
      arrangement_fee |-> OrNum(deal.arrangementFee, 0),
      valuation_fee |-> OrNum(deal.valuationFee, 0),
      legal_fees |-> OrNum(deal.legalFees, 0),
      cashback |-> OrNum(deal.cashback, 0),
      free_valuation |-> OrFlag(deal, "freeValuation"),
      free_legal_work |-> OrFlag(deal, "freeLegalWork"),
      overpayment_allowance |-> OrNum(deal.overpaymentAllowance, Null),
      early_repayment_charges |-> OrStr(deal.earlyRepaymentCharges, ""),
      lender_type |-> OrStr(deal.lenderType, "UK Mainstream"),
      source |-> source ]
\* A parameter array with 0 as the maximum LTV of a record that has none or
\* one that is no number.
DealParamsLtv0(deal, source) ==
    [ lender_name |-> deal.lenderName,
      product_name |-> deal.productName,
      interest_rate |-> deal.interestRate,
      deal_type |-> OrStr(deal.dealType, "Fixed"),
      term_years |-> OrNum(deal.termYears, 2000),
      max_ltv |-> OrNum(deal.maxLTV, 0),
      arrangement_fee |-> OrNum(deal.arrangementFee, 0),
      valuation_fee |-> OrNum(deal.valuationFee, 0),
      legal_fees |-> OrNum(deal.legalFees, 0),
      cashback |-> OrNum(deal.cashback, 0),
      free_valuation |-> OrFlag(deal, "freeValuation"),
      free_legal_work |-> OrFlag(deal, "freeLegalWork"),
      overpayment_allowance |-> OrNum(deal.overpaymentAllowance, Null),
      early_repayment_charges |-> OrStr(deal.earlyRepaymentCharges, ""),
      lender_type |-> OrStr(deal.lenderType, "UK Mainstream"),
      source |-> source ]
\* The parameter array of the INSERT.
DealParams(deal, source) ==
    [ lender_name |-> deal.lenderName,
      product_name |-> deal.productName,
      interest_rate |-> deal.interestRate,
      deal_type |-> OrStr(deal.dealType, "Fixed"),
      term_years |-> OrNum(deal.termYears, 2000),
      max_ltv |-> OrNum(deal.maxLTV, 75000),
      arrangement_fee |-> OrNum(deal.arrangementFee, 0),
      valuation_fee |-> OrNum(deal.valuationFee, 0),
      legal_fees |-> OrNum(deal.legalFees, 0),
      cashback |-> OrNum(deal.cashback, 0),
      free_valuation |-> OrFlag(deal, "freeValuation"),
      free_legal_work |-> OrFlag(deal, "freeLegalWork"),
      overpayment_allowance |-> OrNum(deal.overpaymentAllowance, Null),
      early_repayment_charges |-> OrStr(deal.earlyRepaymentCharges, ""),
      lender_type |-> OrStr(deal.lenderType, "UK Mainstream"),
      source |-> source ]

\* The row the INSERT proposes: the parameters coerced to the column types,
\* scraped_at from its default.
ProposedRow(p, now) ==
    [ lender_name |-> p.lender_name,
      product_name |-> p.product_name,
      interest_rate |-> ToDecimal2(p.interest_rate),
      deal_type |-> p.deal_type,
      term_years |-> ToInt(p.term_years),
      max_ltv |-> ToDecimal2(p.max_ltv),
      arrangement_fee |-> ToDecimal2(p.arrangement_fee),
      valuation_fee |-> ToDecimal2(p.valuation_fee),
      legal_fees |-> ToDecimal2(p.legal_fees),
      cashback |-> ToDecimal2(p.cashback),
      free_valuation |-> p.free_valuation,
      free_legal_work |-> p.free_legal_work,
      overpayment_allowance |-> ToDecimal2(p.overpayment_allowance),
      early_repayment_charges |-> p.early_repayment_charges,
      lender_type |-> p.lender_type,
      source |-> p.source,
      scraped_at |-> now ]

\* The statement fails on the data alone: a NOT NULL column without a value or a
\* number that does not fit its column.
RowRejected(row) ==
    \/ row.lender_name = "undefined"
    \/ row.product_name = "undefined"
    \/ row.interest_rate = Null
    \/ NumericOverflow(row.interest_rate, 5)
    \/ NumericOverflow(row.max_ltv, 5)
    \/ NumericOverflow(row.overpayment_allowance, 5)
    \/ NumericOverflow(row.arrangement_fee, 10)
    \/ NumericOverflow(row.valuation_fee, 10)
    \/ NumericOverflow(row.legal_fees, 10)
    \/ NumericOverflow(row.cashback, 10)

DealKey(row) == <<row.lender_name, row.product_name, row.interest_rate>>

\* The table without its UNIQUE constraint: nothing conflicts.
NoConflict(old, new) == FALSE
\* A constraint that also spans scraped_at: rows of different instants do not
\* conflict.
ConflictsAtInstant(old, new) == DealKey(old) = DealKey(new) /\ old.scraped_at = new.scraped_at
\* UNIQUE(lender_name, product_name, interest_rate) / ON CONFLICT (...) target.
Conflicts(old, new) == DealKey(old) = DealKey(new)

\* Variants of the conflict action: one that also takes max_ltv from the new
\* row, one that does nothing, one that replaces the row.
OnConflictUpdateLtv(old, excluded, now) ==
    [old EXCEPT !.arrangement_fee = excluded.arrangement_fee,
                !.max_ltv = excluded.max_ltv,
                !.scraped_at = now]
OnConflictNothing(old, excluded, now) == old
OnConflictReplace(old, excluded, now) == excluded
\* DO UPDATE SET arrangement_fee = EXCLUDED.arrangement_fee, scraped_at = CURRENT_TIMESTAMP
OnConflictUpdate(old, excluded, now) ==
    [old EXCEPT !.arrangement_fee = excluded.arrangement_fee,
                !.scraped_at = now]

\* An upsert that first deletes the rows of earlier instants.
UpsertPurging(table, row, now) ==
    LET fresh == SelectSeq(table, LAMBDA r : r.scraped_at >= now)
    IN  IF \E i \in 1..Len(fresh) : Conflicts(fresh[i], row)
        THEN [i \in 1..Len(fresh) |->
                IF Conflicts(fresh[i], row) THEN OnConflictUpdate(fresh[i], row, now)
                ELSE fresh[i]]
        ELSE Append(fresh, row)
\* INSERT ... ON CONFLICT ... DO UPDATE of one accepted row, atomically.
Upsert(table, row, now) ==
    IF \E i \in 1..Len(table) : Conflicts(table[i], row)
    THEN [i \in 1..Len(table) |->
            IF Conflicts(table[i], row) THEN OnConflictUpdate(table[i], row, now)
            ELSE table[i]]
    ELSE Append(table, row)

\* INSERT INTO scrape_logs (source, status, deals_found, error_message)
LogRow(source, status, dealsFound, errorMessage, now) ==
    [ source |-> source, status |-> status, deals_found |-> dealsFound,
      error_message |-> errorMessage, scraped_at |-> now ]

(***************************** the state ************************************)
vars == << deals, scrape_logs, clock, runs, pc, browser, scrapeDeals, caught,
           scrapeResult, msmDeals, idx, savedCount, results, outcomes, audit,
           query, stage, response, sawEmpty, acquisitions, order, metrics, save >>

dbVars == << deals, scrape_logs >>
scrapeVars == << browser, scrapeDeals, caught, scrapeResult >>
passVars == << msmDeals, idx, savedCount, results, outcomes, audit >>
searchVars == << query, stage, response, sawEmpty, acquisitions >>
harnessVars == << order, metrics, save >>
otherVars == << searchVars, harnessVars >>

NoResult == [threw |-> FALSE, deals |-> <<>>, error |-> ""]
\* req.query without parameters.
NoQuery ==
    [ path |-> "", baselineMonthly |-> Undefined,
      maxRate |-> Undefined, minLTV |-> Undefined, dealType |-> "undefined",
      lenderType |-> "undefined", termYears |-> Undefined, freeValuation |-> "undefined",
      freeLegalWork |-> "undefined", maxArrangementFee |-> Undefined,
      hasCashback |-> "undefined", limit |-> Undefined ]
\* Nothing sent yet.
NoResponse == [status |-> 0, body |-> <<>>]

\* No task is running.
InitTasks ==
    /\ scrape_logs = <<>>
    /\ clock = 0
    /\ runs = 0
    /\ pc = [t \in Tasks |-> "idle"]
    /\ browser = [t \in Tasks |-> "undefined"]
    /\ scrapeDeals = [t \in Tasks |-> <<>>]
    /\ caught = [t \in Tasks |-> ""]
    /\ scrapeResult = [t \in Tasks |-> NoResult]
    /\ msmDeals = [p \in Passes |-> <<>>]
    /\ idx = [p \in Passes |-> 1]
    /\ savedCount = [p \in Passes |-> 0]
    /\ results = [p \in Passes |-> <<>>]
    /\ outcomes = [p \in Passes |-> <<>>]
    /\ audit = [p \in Passes |-> <<>>]
    /\ query = [s \in Searches |-> NoQuery]
    /\ stage = [s \in Searches |-> "try"]
    /\ response = [s \in Searches |-> NoResponse]
    /\ sawEmpty = [s \in Searches |-> FALSE]
    /\ acquisitions = [s \in Searches |-> 0]

NoOrder == [step |-> "none"]
NoMetrics == [step |-> "none"]
NoSave == [step |-> "none"]

\* A fresh deployment: initDatabase created the two tables, both empty.
Init ==
    /\ deals = <<>>
    /\ order = NoOrder
    /\ metrics = NoMetrics
    /\ save = NoSave
    /\ InitTasks

\* Time passes.
Tick ==
    /\ clock < MaxClock
    /\ clock' = clock + 1
    /\ UNCHANGED << deals, scrape_logs, runs, pc, scrapeVars, passVars, otherVars >>

(******************************* scrape() ***********************************)
\* The locals of a call of scrape(), as scrape() initialises them.
BeginScrape(t) ==
    /\ browser' = [browser EXCEPT ![t] = "undefined"]
    /\ scrapeDeals' = [scrapeDeals EXCEPT ![t] = <<>>]
    /\ caught' = [caught EXCEPT ![t] = ""]
    /\ scrapeResult' = [scrapeResult EXCEPT ![t] = NoResult]

\* await puppeteer.launch: a session opens, or launch rejects; the catch logs
\* the error, finally finds no browser and scrape returns the empty `deals`.
Launch(t) ==
    /\ pc[t] = "launch"
    /\ \E ok \in BOOLEAN :
        IF ok
        THEN /\ browser' = [browser EXCEPT ![t] = "open"]
             /\ pc' = [pc EXCEPT ![t] = "page"]
             /\ UNCHANGED << scrapeDeals, caught, scrapeResult >>
        ELSE /\ caught' = [caught EXCEPT ![t] = "Failed to launch the browser process"]
             /\ scrapeResult' = [scrapeResult EXCEPT ![t] =
                    [threw |-> FALSE, deals |-> scrapeDeals[t], error |-> ""]]
             /\ pc' = [pc EXCEPT ![t] = "scraped"]
             /\ UNCHANGED << browser, scrapeDeals >>
    /\ UNCHANGED << dbVars, clock, runs, passVars, otherVars >>

\* newPage, setUserAgent, goto, waitForSelector (its timeout is swallowed) and
\* evaluate: either one of them rejects (caught, logged) or the extracted deals
\* are pushed to `deals`; finally then awaits browser.close().
LoadPage(t) ==
    /\ pc[t] = "page"
    /\ \/ \E msg \in {"Navigation timeout of 60000 ms exceeded", "Execution context was destroyed"} :
            /\ caught' = [caught EXCEPT ![t] = msg]
            /\ UNCHANGED scrapeDeals
       \/ \E page \in Pages :
            /\ scrapeDeals' = [scrapeDeals EXCEPT ![t] = scrapeDeals[t] \o Extract(page)]
            /\ UNCHANGED caught
    /\ pc' = [pc EXCEPT ![t] = "close"]
    /\ UNCHANGED << dbVars, clock, runs, browser, scrapeResult, passVars, otherVars >>

\* A scrape() that closes the browser at the end of its try block and not in a
\* finally: after a caught error the session is left as it is.
CloseBrowserInTry(t) ==
    /\ pc[t] = "close"
    /\ IF caught[t] /= ""
       THEN /\ UNCHANGED browser
            /\ scrapeResult' = [scrapeResult EXCEPT ![t] =
                   [threw |-> FALSE, deals |-> scrapeDeals[t], error |-> ""]]
       ELSE \E ok \in BOOLEAN :
                IF ok
                THEN /\ browser' = [browser EXCEPT ![t] = "closed"]
                     /\ scrapeResult' = [scrapeResult EXCEPT ![t] =
                            [threw |-> FALSE, deals |-> scrapeDeals[t], error |-> ""]]
                ELSE /\ UNCHANGED browser
                     /\ scrapeResult' = [scrapeResult EXCEPT ![t] =
                            [threw |-> TRUE, deals |-> <<>>, error |-> "Protocol error: Connection closed"]]
    /\ pc' = [pc EXCEPT ![t] = "scraped"]
    /\ UNCHANGED << dbVars, clock, runs, scrapeDeals, caught, passVars, otherVars >>

\* await browser.close() in finally: the session closes and scrape returns
\* `deals`, or close rejects and that rejection is what scrape() settles with.
CloseBrowser(t) ==
    /\ pc[t] = "close"
    /\ \E ok \in BOOLEAN :
        IF ok
        THEN /\ browser' = [browser EXCEPT ![t] = "closed"]
             /\ scrapeResult' = [scrapeResult EXCEPT ![t] =
                    [threw |-> FALSE, deals |-> scrapeDeals[t], error |-> ""]]
        ELSE /\ UNCHANGED browser
             /\ scrapeResult' = [scrapeResult EXCEPT ![t] =
                    [threw |-> TRUE, deals |-> <<>>, error |-> "Protocol error: Connection closed"]]
    /\ pc' = [pc EXCEPT ![t] = "scraped"]
    /\ UNCHANGED << dbVars, clock, runs, scrapeDeals, caught, passVars, otherVars >>

(**************************** runAllScrapers() ******************************)
Source == "MoneySuperMarket"

\* results.push({ source, deals: msmDeals.length })
ResultEntry(source, scraped) == [source |-> source, deals |-> Len(scraped)]

\* A trigger (POST /api/deals/scrape, POST /api/deals/refresh, the cron job, the
\* start-up timer) calls runAllScrapers, which calls scrape().
StartPass(p) ==
    /\ pc[p] = "idle"
    /\ runs < MaxRuns
    /\ runs' = runs + 1
    /\ pc' = [pc EXCEPT ![p] = "launch"]
    /\ UNCHANGED << dbVars, clock, scrapeVars, passVars, otherVars >>

\* scrape() settled: on a rejection the catch block is entered (logScrape is
\* awaited next); otherwise the entry is pushed and saveDeals starts its loop.
PassScraped(p) ==
    /\ IsPass(p)
    /\ pc[p] = "scraped"
    /\ IF scrapeResult[p].threw
       THEN /\ pc' = [pc EXCEPT ![p] = "logError"]
            /\ UNCHANGED << msmDeals, results >>
       ELSE /\ msmDeals' = [msmDeals EXCEPT ![p] = scrapeResult[p].deals]
            /\ results' = [results EXCEPT ![p] = Append(results[p], ResultEntry(Source, scrapeResult[p].deals))]
            /\ pc' = [pc EXCEPT ![p] = "save"]
    /\ UNCHANGED << dbVars, clock, runs, scrapeVars, idx, savedCount, outcomes, audit, otherVars >>

\* savedCount++ after the awaited query; the catch leaves it alone.
NextSavedCount(count, ok) == IF ok THEN count + 1 ELSE count

\* A loop that a failed query ends.
NextIndexAbort(i, ok, n) == IF ok THEN i + 1 ELSE n + 1
\* The for-of loop goes on to the next record whether or not the query threw.
NextIndex(i, ok, n) == i + 1

\* One iteration of the loop of saveDeals: the INSERT ... ON CONFLICT of one
\* record, which fails when the database is unreachable or rejects the row.
SaveDeal(p) ==
    /\ pc[p] = "save"
    /\ idx[p] <= Len(msmDeals[p])
    /\ \E dbUp \in BOOLEAN :
        LET row == ProposedRow(DealParams(msmDeals[p][idx[p]], Source), clock)
            ok == dbUp /\ ~RowRejected(row)
        IN  /\ deals' = IF ok THEN Upsert(deals, row, clock) ELSE deals
            /\ savedCount' = [savedCount EXCEPT ![p] = NextSavedCount(savedCount[p], ok)]
            /\ idx' = [idx EXCEPT ![p] = NextIndex(idx[p], ok, Len(msmDeals[p]))]
            /\ outcomes' = [outcomes EXCEPT ![p] = Append(outcomes[p], ok)]
    /\ UNCHANGED << scrape_logs, clock, runs, pc, scrapeVars, msmDeals, results, audit, otherVars >>

\* A logScrape without its try/catch: a failed INSERT rejects the call, and
\* with it saveDeals and runAllScrapers.
AfterLogScrapeRethrow(written) == IF written THEN "done" ELSE "raised"
\* Where the caller of logScrape goes on: the catch of logScrape logs a failed
\* INSERT to the console, so the call returns either way and so does the pass.
AfterLogScrape(written) == "done"

\* A log that keeps one row, the latest.
LogScrapeLatest(p, source, status, dealsFound, errorMessage) ==
    \E dbUp \in BOOLEAN :
        LET row == LogRow(source, status, dealsFound, errorMessage, clock)
        IN  /\ scrape_logs' = IF dbUp THEN <<row>> ELSE scrape_logs
            /\ audit' = [audit EXCEPT ![p] = Append(audit[p], [row |-> row, written |-> dbUp])]
            /\ pc' = [pc EXCEPT ![p] = AfterLogScrape(dbUp)]
\* logScrape: the INSERT into scrape_logs; a failure is caught and logged.
LogScrape(p, source, status, dealsFound, errorMessage) ==
    \E dbUp \in BOOLEAN :
        LET row == LogRow(source, status, dealsFound, errorMessage, clock)
        IN  /\ scrape_logs' = IF dbUp THEN Append(scrape_logs, row) ELSE scrape_logs
            /\ audit' = [audit EXCEPT ![p] = Append(audit[p], [row |-> row, written |-> dbUp])]
            /\ pc' = [pc EXCEPT ![p] = AfterLogScrape(dbUp)]

\* The loop of saveDeals is over: logScrape(source, 'success', savedCount, null),
\* saveDeals returns and runAllScrapers returns `results`.
LogSuccess(p) ==
    /\ pc[p] = "save"
    /\ idx[p] > Len(msmDeals[p])
    /\ LogScrape(p, Source, "success", savedCount[p], "null")
    /\ UNCHANGED << deals, clock, runs, scrapeVars, msmDeals, idx, savedCount, results, outcomes, otherVars >>

\* A catch block that only logs to the console.
LogErrorSkipped(p) ==
    /\ pc[p] = "logError"
    /\ pc' = [pc EXCEPT ![p] = "done"]
    /\ UNCHANGED << dbVars, clock, runs, scrapeVars, passVars, otherVars >>

\* The catch of runAllScrapers: logScrape('MoneySuperMarket', 'error', 0,
\* error.message), then runAllScrapers returns `results`.
LogError(p) ==
    /\ pc[p] = "logError"
    /\ LogScrape(p, Source, "error", 0, scrapeResult[p].error)
    /\ UNCHANGED << deals, clock, runs, scrapeVars, msmDeals, idx, savedCount, results, outcomes, otherVars >>

\* The trigger consumed the returned `results`; the locals of the call are gone
\* and the task can serve a new trigger.
PassReturned(p) ==
    /\ IsPass(p)
    /\ pc[p] = "done"
    /\ pc' = [pc EXCEPT ![p] = "idle"]
    /\ BeginScrape(p)
    /\ msmDeals' = [msmDeals EXCEPT ![p] = <<>>]
    /\ idx' = [idx EXCEPT ![p] = 1]
    /\ savedCount' = [savedCount EXCEPT ![p] = 0]
    /\ results' = [results EXCEPT ![p] = <<>>]
    /\ outcomes' = [outcomes EXCEPT ![p] = <<>>]
    /\ audit' = [audit EXCEPT ![p] = <<>>]
    /\ UNCHANGED << dbVars, clock, runs, otherVars >>

(******************************* addMetrics() ********************************)
\* Amounts of money are JavaScript numbers in thousandths of a pound, like the
\* fees.  The payment formula is evaluated in fixed-point arithmetic: the
\* monthly rate and the power with 8 decimals, the unrounded payment in
\* millionths of a pound.  The doubles of the code carry 15 to 16 digits, so an
\* amount can differ from the code's by a few pence; the branches, the
\* roundings and the order of the operations are the code's.
principal == 8581931        \* 85819.31, in pence
years == 15
numPayments == years * 12
\* 1.0 with 8 decimals.
Fixed == Pow10(8)

\* One binary digit of b: from h, the <<quotient, remainder>> of a * (b \div 2)
\* by c, that of a * b by c.
MulDivStep(h, a, b, c) ==
    LET r2 == 2 * h[2]
        r3 == (r2 % c) + (IF b % 2 = 1 THEN a % c ELSE 0)
        q3 == 2 * h[1] + (r2 \div c) + (IF b % 2 = 1 THEN a \div c ELSE 0)
    IN  <<q3 + (r3 \div c), r3 % c>>
\* <<quotient, remainder>> of a * b by c, for a, b >= 0 and c > 0, without an
\* intermediate value beyond 31 bits.
RECURSIVE MulDivRem(_, _, _)
MulDivRem(a, b, c) ==
    IF b = 0 THEN <<0, 0>>
    ELSE CHOOSE out \in {MulDivStep(h, a, b, c) :
                            h \in {MulDivRem(a, b2, c) : b2 \in {b \div 2}}} : TRUE
\* floor(a * b / c); the arguments are evaluated once, in the set constructor.
MulDiv(a, b, c) == CHOOSE q \in {MulDivRem(x, y, z)[1] : x \in {a}, y \in {b}, z \in {c}} : TRUE

\* (parseFloat(deal.interestRate) || 0) / 100 / 12, with 8 decimals, of a rate
\* given in thousandths of a percent.
monthlyRate(rate) == (OrNum(rate, 0) * 250) \div 3

\* Math.pow(x, n) of a number with 8 decimals, by repeated squaring.
RECURSIVE PowFixed(_, _)
PowFixed(x, n) ==
    IF n = 0 THEN Fixed
    ELSE IF n % 2 = 0 THEN CHOOSE p \in {MulDiv(h, h, Fixed) : h \in {PowFixed(x, n \div 2)}} : TRUE
    ELSE MulDiv(x, PowFixed(x, n - 1), Fixed)

\* The else branch of the payment: `: 0`.
ZeroRatePayment == 0
\* monthlyRate > 0 ? principal * (monthlyRate * pow) / (pow - 1) : 0, in
\* millionths of a pound.
monthlyPayment(rate) ==
    LET r == monthlyRate(rate)
    IN  IF r > 0
        THEN CHOOSE m \in {MulDiv(MulDiv(principal, r, Pow10(4)), pw, pw - Fixed) :
                              pw \in {PowFixed(Fixed + r, numPayments)}} : TRUE
        ELSE ZeroRatePayment

\* Math.round(x * 100) / 100 of an amount in millionths: thousandths, whole pence.
RoundMicro(x) == ((x + 5000) \div 10000) * 10
\* Math.round(x * 100) / 100 of an amount in thousandths (halves go up).
RoundCents(x) == ((x + 5) \div 10) * 10

\* A total with the sign of the payments slipped.
TotalCostMinus(payment, months, netFees) ==
    LET pence == (netFees \div 10) - months * (payment \div 10000)
        rest == (netFees % 10) * 1000 - months * (payment % 10000)
    IN  (pence + ((rest + 5000) \div 10000)) * 10
\* Math.round((monthlyPayment * months + netFees) * 100) / 100
TotalCost(payment, months, netFees) ==
    LET pence == months * (payment \div 10000) + (netFees \div 10)
        rest == months * (payment % 10000) + (netFees % 10) * 1000
    IN  (pence + ((rest + 5000) \div 10000)) * 10

\* arrangementFee + valuationFee + legalFees - cashback, each `parseFloat(x) || 0`
NetFees(deal) ==
    OrNum(deal.arrangementFee, 0) + OrNum(deal.valuationFee, 0)
        + OrNum(deal.legalFees, 0) - OrNum(deal.cashback, 0)

\* The fields of the object addMetrics returns that come from the deal: the
\* deal spread, with the fees through `parseFloat(x) || 0`.
Enriched(d) ==
    [d EXCEPT !.arrangementFee = OrNum(@, 0), !.valuationFee = OrNum(@, 0),
              !.legalFees = OrNum(@, 0), !.cashback = OrNum(@, 0)]

\* Math.ceil(netFees / savings) for positive amounts.
Ceil(a, b) == (a + b - 1) \div b
\* savings > 0 && netFees > 0 ? Math.ceil(netFees / savings) : null
BreakEven(savings, netFees) ==
    IF savings > 0 /\ netFees > 0 THEN Ceil(netFees, savings) ELSE Null

\* The fields set when baselineMonthly is not undefined; with a baseline that is
\* no number the savings are NaN, and NaN > 0 is false.
Savings(result, baselineMonthly, netFees) ==
    LET savings == baselineMonthly - result.monthlyPayment
    IN  [ monthlySavings |-> IF baselineMonthly = NaN THEN NaN ELSE RoundCents(savings),
          breakEvenMonths |-> IF baselineMonthly = NaN THEN Null
                              ELSE BreakEven(savings, netFees) ]

addMetrics(deal, baselineMonthly) ==
    LET payment == monthlyPayment(deal.interestRate)
        netFees == NetFees(deal)
        result == [ monthlyPayment |-> RoundMicro(payment),
                    totalCost2Years |-> TotalCost(payment, 24, netFees),
                    totalCost5Years |-> TotalCost(payment, 60, netFees) ] @@ Enriched(deal)
    IN  IF baselineMonthly = Undefined THEN result
        ELSE Savings(result, baselineMonthly, netFees) @@ result

(****************************** getSampleDeals() *****************************)
\* The literal `deals` of getSampleDeals, numbers in thousandths (an
\* overpaymentAllowance given as the text '10.00' is the number 10).
SampleLiterals ==
    <<
       [ id |-> 1, lenderName |-> "First Direct", productName |-> "5 Year Fixed - 60% LTV",
         interestRate |-> 4050, dealType |-> "Fixed", termYears |-> 5000, maxLTV |-> 60000,
         arrangementFee |-> 490000, valuationFee |-> 0, legalFees |-> 0, cashback |-> 0,
         freeValuation |-> TRUE, freeLegalWork |-> TRUE, overpaymentAllowance |-> Null,
         earlyRepaymentCharges |-> "", lenderType |-> "UK Mainstream" ],
       [ id |-> 2, lenderName |-> "Santander", productName |-> "5 Year Fixed - 60% LTV",
         interestRate |-> 4090, dealType |-> "Fixed", termYears |-> 5000, maxLTV |-> 60000,
         arrangementFee |-> 999000, valuationFee |-> 0, legalFees |-> 0, cashback |-> 0,
         freeValuation |-> TRUE, freeLegalWork |-> TRUE, overpaymentAllowance |-> Null,
         earlyRepaymentCharges |-> "", lenderType |-> "UK Mainstream" ],
       [ id |-> 3, lenderName |-> "Coventry BS", productName |-> "2 Year Fixed - 60% LTV",
         interestRate |-> 4120, dealType |-> "Fixed", termYears |-> 2000, maxLTV |-> 60000,
         arrangementFee |-> 999000, valuationFee |-> 0, legalFees |-> 0, cashback |-> 0,
         freeValuation |-> TRUE, freeLegalWork |-> TRUE, overpaymentAllowance |-> Null,
         earlyRepaymentCharges |-> "", lenderType |-> "UK Mainstream" ],
       [ id |-> 4, lenderName |-> "Monzo", productName |-> "5 Year Fixed - 60% LTV",
         interestRate |-> 4150, dealType |-> "Fixed", termYears |-> 5000, maxLTV |-> 60000,
         arrangementFee |-> 0, valuationFee |-> 0, legalFees |-> 0, cashback |-> 0,
         freeValuation |-> TRUE, freeLegalWork |-> TRUE, overpaymentAllowance |-> Null,
         earlyRepaymentCharges |-> "", lenderType |-> "UK Challenger Bank" ],
       [ id |-> 5, lenderName |-> "Halifax", productName |-> "2 Year Fixed - 60% LTV",
         interestRate |-> 4150, dealType |-> "Fixed", termYears |-> 2000, maxLTV |-> 60000,
         arrangementFee |-> 1499000, valuationFee |-> 0, legalFees |-> 0, cashback |-> 500000,
         freeValuation |-> TRUE, freeLegalWork |-> TRUE, overpaymentAllowance |-> Null,
         earlyRepaymentCharges |-> "", lenderType |-> "UK Mainstream" ],
       [ id |-> 6, lenderName |-> "Nationwide", productName |-> "2 Year Fixed - 60% LTV",
         interestRate |-> 4190, dealType |-> "Fixed", termYears |-> 2000, maxLTV |-> 60000,
         arrangementFee |-> 999000, valuationFee |-> 0, legalFees |-> 0, cashback |-> 0,
         freeValuation |-> TRUE, freeLegalWork |-> TRUE, overpaymentAllowance |-> 10000,
         earlyRepaymentCharges |-> "2% Year 1, 1% Year 2", lenderType |-> "UK Mainstream" ],
       [ id |-> 7, lenderName |-> "Lloyds Bank", productName |-> "2 Year Fixed - 60% LTV",
         interestRate |-> 4220, dealType |-> "Fixed", termYears |-> 2000, maxLTV |-> 60000,
         arrangementFee |-> 999000, valuationFee |-> 0, legalFees |-> 0, cashback |-> 0,
         freeValuation |-> TRUE, freeLegalWork |-> TRUE, overpaymentAllowance |-> Null,
         earlyRepaymentCharges |-> "", lenderType |-> "UK Mainstream" ],
       [ id |-> 8, lenderName |-> "Virgin Money", productName |-> "5 Year Fixed - 75% LTV",
         interestRate |-> 4250, dealType |-> "Fixed", termYears |-> 5000, maxLTV |-> 75000,
         arrangementFee |-> 995000, valuationFee |-> 0, legalFees |-> 0, cashback |-> 0,
         freeValuation |-> TRUE, freeLegalWork |-> TRUE, overpaymentAllowance |-> Null,
         earlyRepaymentCharges |-> "", lenderType |-> "UK Mainstream" ],
       [ id |-> 9, lenderName |-> "HSBC", productName |-> "5 Year Fixed - 75% LTV",
         interestRate |-> 4290, dealType |-> "Fixed", termYears |-> 5000, maxLTV |-> 75000,
         arrangementFee |-> 999000, valuationFee |-> 0, legalFees |-> 0, cashback |-> 250000,
         freeValuation |-> TRUE, freeLegalWork |-> FALSE, overpaymentAllowance |-> Null,
         earlyRepaymentCharges |-> "", lenderType |-> "UK Mainstream" ],
       [ id |-> 10, lenderName |-> "Atom Bank", productName |-> "2 Year Fixed - 75% LTV",
         interestRate |-> 4290, dealType |-> "Fixed", termYears |-> 2000, maxLTV |-> 75000,
         arrangementFee |-> 0, valuationFee |-> 0, legalFees |-> 0, cashback |-> 0,
         freeValuation |-> TRUE, freeLegalWork |-> TRUE, overpaymentAllowance |-> Null,
         earlyRepaymentCharges |-> "", lenderType |-> "UK Challenger Bank" ],
       [ id |-> 11, lenderName |-> "Yorkshire BS", productName |-> "5 Year Fixed - 75% LTV",
         interestRate |-> 4310, dealType |-> "Fixed", termYears |-> 5000, maxLTV |-> 75000,
         arrangementFee |-> 0, valuationFee |-> 0, legalFees |-> 0, cashback |-> 0,
         freeValuation |-> TRUE, freeLegalWork |-> TRUE, overpaymentAllowance |-> Null,
         earlyRepaymentCharges |-> "", lenderType |-> "UK Mainstream" ],
       [ id |-> 12, lenderName |-> "Barclays", productName |-> "2 Year Fixed - 75% LTV",
         interestRate |-> 4350, dealType |-> "Fixed", termYears |-> 2000, maxLTV |-> 75000,
         arrangementFee |-> 899000, valuationFee |-> 0, legalFees |-> 0, cashback |-> 0,
         freeValuation |-> TRUE, freeLegalWork |-> TRUE, overpaymentAllowance |-> Null,
         earlyRepaymentCharges |-> "", lenderType |-> "UK Mainstream" ],
       [ id |-> 13, lenderName |-> "Leeds BS", productName |-> "2 Year Fixed - 75% LTV",
         interestRate |-> 4350, dealType |-> "Fixed", termYears |-> 2000, maxLTV |-> 75000,
         arrangementFee |-> 999000, valuationFee |-> 0, legalFees |-> 0, cashback |-> 0,
         freeValuation |-> TRUE, freeLegalWork |-> FALSE, overpaymentAllowance |-> Null,
         earlyRepaymentCharges |-> "", lenderType |-> "UK Mainstream" ],
       [ id |-> 14, lenderName |-> "TSB", productName |-> "2 Year Fixed - 75% LTV",
         interestRate |-> 4390, dealType |-> "Fixed", termYears |-> 2000, maxLTV |-> 75000,
         arrangementFee |-> 995000, valuationFee |-> 0, legalFees |-> 0, cashback |-> 0,
         freeValuation |-> TRUE, freeLegalWork |-> FALSE, overpaymentAllowance |-> Null,
         earlyRepaymentCharges |-> "", lenderType |-> "UK Mainstream" ],
       [ id |-> 15, lenderName |-> "Skipton BS", productName |-> "2 Year Fixed - 75% LTV",
         interestRate |-> 4450, dealType |-> "Fixed", termYears |-> 2000, maxLTV |-> 75000,
         arrangementFee |-> 995000, valuationFee |-> 0, legalFees |-> 0, cashback |-> 0,
         freeValuation |-> TRUE, freeLegalWork |-> FALSE, overpaymentAllowance |-> Null,
         earlyRepaymentCharges |-> "", lenderType |-> "UK Mainstream" ],
       [ id |-> 16, lenderName |-> "NatWest", productName |-> "2 Year Fixed - 75% LTV",
         interestRate |-> 4490, dealType |-> "Fixed", termYears |-> 2000, maxLTV |-> 75000,
         arrangementFee |-> 0, valuationFee |-> 0, legalFees |-> 0, cashback |-> 0,
         freeValuation |-> TRUE, freeLegalWork |-> TRUE, overpaymentAllowance |-> Null,
         earlyRepaymentCharges |-> "", lenderType |-> "UK Mainstream" ],
       [ id |-> 17, lenderName |-> "Metro Bank", productName |-> "3 Year Fixed - 75% LTV",
         interestRate |-> 4550, dealType |-> "Fixed", termYears |-> 3000, maxLTV |-> 75000,
         arrangementFee |-> 499000, valuationFee |-> 0, legalFees |-> 0, cashback |-> 1000000,
         freeValuation |-> TRUE, freeLegalWork |-> TRUE, overpaymentAllowance |-> Null,
         earlyRepaymentCharges |-> "", lenderType |-> "UK Challenger Bank" ],
       [ id |-> 18, lenderName |-> "Nationwide", productName |-> "10 Year Fixed - 60% LTV",
         interestRate |-> 4590, dealType |-> "Fixed", termYears |-> 10000, maxLTV |-> 60000,
         arrangementFee |-> 999000, valuationFee |-> 0, legalFees |-> 0, cashback |-> 0,
         freeValuation |-> TRUE, freeLegalWork |-> TRUE, overpaymentAllowance |-> Null,
         earlyRepaymentCharges |-> "", lenderType |-> "UK Mainstream" ],
       [ id |-> 19, lenderName |-> "Al Rayan Bank", productName |-> "Home Purchase Plan - 75% LTV",
         interestRate |-> 4690, dealType |-> "Fixed", termYears |-> 2000, maxLTV |-> 75000,
         arrangementFee |-> 999000, valuationFee |-> 0, legalFees |-> 0, cashback |-> 0,
         freeValuation |-> TRUE, freeLegalWork |-> FALSE, overpaymentAllowance |-> Null,
         earlyRepaymentCharges |-> "", lenderType |-> "Islamic Finance" ],
       [ id |-> 20, lenderName |-> "HSBC", productName |-> "2 Year Tracker - 60% LTV",
         interestRate |-> 4790, dealType |-> "Tracker", termYears |-> 2000, maxLTV |-> 60000,
         arrangementFee |-> 999000, valuationFee |-> 0, legalFees |-> 0, cashback |-> 0,
         freeValuation |-> TRUE, freeLegalWork |-> TRUE, overpaymentAllowance |-> 10000,
         earlyRepaymentCharges |-> "", lenderType |-> "UK Mainstream" ],
       [ id |-> 21, lenderName |-> "Coutts", productName |-> "Private Mortgage - 70% LTV",
         interestRate |-> 4850, dealType |-> "Fixed", termYears |-> 5000, maxLTV |-> 70000,
         arrangementFee |-> 0, valuationFee |-> 0, legalFees |-> 0, cashback |-> 0,
         freeValuation |-> TRUE, freeLegalWork |-> TRUE, overpaymentAllowance |-> Null,
         earlyRepaymentCharges |-> "", lenderType |-> "Private Bank" ],
       [ id |-> 22, lenderName |-> "HSBC Expat", productName |-> "2 Year Fixed - 70% LTV",
         interestRate |-> 4990, dealType |-> "Fixed", termYears |-> 2000, maxLTV |-> 70000,
         arrangementFee |-> 1500000, valuationFee |-> 0, legalFees |-> 0, cashback |-> 0,
         freeValuation |-> FALSE, freeLegalWork |-> FALSE, overpaymentAllowance |-> Null,
         earlyRepaymentCharges |-> "", lenderType |-> "Offshore - Jersey" ],
       [ id |-> 23, lenderName |-> "Barclays", productName |-> "Lifetime Tracker - 75% LTV",
         interestRate |-> 5090, dealType |-> "Tracker", termYears |-> 25000, maxLTV |-> 75000,
         arrangementFee |-> 0, valuationFee |-> 0, legalFees |-> 0, cashback |-> 0,
         freeValuation |-> TRUE, freeLegalWork |-> TRUE, overpaymentAllowance |-> 100000,
         earlyRepaymentCharges |-> "None", lenderType |-> "UK Mainstream" ],
       [ id |-> 24, lenderName |-> "Butterfield", productName |-> "5 Year Fixed - 65% LTV",
         interestRate |-> 5250, dealType |-> "Fixed", termYears |-> 5000, maxLTV |-> 65000,
         arrangementFee |-> 2000000, valuationFee |-> 0, legalFees |-> 0, cashback |-> 0,
         freeValuation |-> FALSE, freeLegalWork |-> FALSE, overpaymentAllowance |-> Null,
         earlyRepaymentCharges |-> "", lenderType |-> "Offshore - Guernsey" ]
    >>

\* getSampleDeals(): each literal with its monthlyPayment; the rate of a
\* literal is used without a guard.
getSampleDeals ==
    [k \in 1..Len(SampleLiterals) |->
        [monthlyPayment |-> RoundMicro(monthlyPayment(SampleLiterals[k].interestRate))]
            @@ SampleLiterals[k]]

(************************* GET /api/deals/search ****************************)
\* A query-string value that is a number is given in thousandths; NaN is a text
\* that is no number ("abc"); Undefined is a parameter that is absent or "".
Truthy(x) == x /= Undefined
TruthyStr(x) == x \notin {"", "undefined"}

AllQueries ==
    [ path : {"/api/deals/search"},
      baselineMonthly : {Undefined, 700000},
      maxRate : {Undefined, 4200, NaN},
      minLTV : {Undefined, 70000},
      dealType : {"undefined", "Fixed", "Tracker"},
      lenderType : {"undefined", "UK Mainstream"},
      termYears : {Undefined, 2000, 2500},
      freeValuation : {"undefined", "true"},
      freeLegalWork : {"undefined", "true"},
      maxArrangementFee : {Undefined, 500000},
      hasCashback : {"undefined", "true"},
      limit : {Undefined, NaN, 0, 1000, -1000} ]

FiltersGiven(q) ==
    Cardinality({f \in {"maxRate", "minLTV", "termYears", "maxArrangementFee"} : Truthy(q[f])})
    + Cardinality({f \in {"dealType", "lenderType", "freeValuation", "freeLegalWork", "hasCashback"} :
                        TruthyStr(q[f])})

Queries == {q \in AllQueries : FiltersGiven(q) <= MaxFilters}
\* The listing takes baselineMonthly only.
LatestQueries ==
    {[NoQuery EXCEPT !.path = "/api/deals/latest", !.baselineMonthly = b] : b \in {Undefined, 700000}}

\* req.query.baselineMonthly ? parseFloat(req.query.baselineMonthly) : undefined
Baseline(q) == q.baselineMonthly

\* parseInt(text, 10) of a number text: the digits before the point.
ParseInt(m) == IF m < 0 THEN 0 - ((0 - m) \div 1000) ELSE m \div 1000
\* const lim = parseInt(limit || '50', 10);  ...  isNaN(lim) ? 50 : lim
EffectiveLimit(limit) == IF limit \in {Undefined, NaN} THEN 50 ELSE ParseInt(limit)

\* The WHERE clause built from the query, on one row of deals.
Where(row, q) ==
    /\ Truthy(q.maxRate) => row.interest_rate * 10 <= q.maxRate
    /\ Truthy(q.minLTV) => row.max_ltv * 10 >= q.minLTV
    /\ TruthyStr(q.dealType) => row.deal_type = q.dealType
    /\ TruthyStr(q.lenderType) => row.lender_type = q.lenderType
    /\ Truthy(q.termYears) => row.term_years * 1000 = q.termYears
    /\ q.freeValuation = "true" => row.free_valuation
    /\ q.freeLegalWork = "true" => row.free_legal_work
    /\ Truthy(q.maxArrangementFee) => row.arrangement_fee * 10 <= q.maxArrangementFee
    /\ q.hasCashback = "true" => row.cashback > 0

\* A filter parameter the database does not take: one that is no number or,
\* for term_years, no integer.
ParamsRejected(q) ==
    \/ q.maxRate = NaN
    \/ q.minLTV = NaN
    \/ q.termYears = NaN
    \/ Truthy(q.termYears) /\ q.termYears % 1000 /= 0
    \/ q.maxArrangementFee = NaN
\* The statement is rejected by the database: such a parameter, or a negative LIMIT.
QueryRejected(q) == ParamsRejected(q) \/ EffectiveLimit(q.limit) < 0

\* The object node-postgres builds for a row under the column aliases of the
\* SELECT, numbers read back in thousandths.
RowObject(row) ==
    [ lenderName |-> row.lender_name,
      productName |-> row.product_name,
      interestRate |-> row.interest_rate * 10,
      dealType |-> row.deal_type,
      termYears |-> row.term_years * 1000,
      maxLTV |-> row.max_ltv * 10,
      arrangementFee |-> row.arrangement_fee * 10,
      valuationFee |-> row.valuation_fee * 10,
      legalFees |-> row.legal_fees * 10,
      cashback |-> row.cashback * 10,
      freeValuation |-> row.free_valuation,
      freeLegalWork |-> row.free_legal_work,
      overpaymentAllowance |-> IF row.overpayment_allowance = Null THEN Null
                               ELSE row.overpayment_allowance * 10,
      earlyRepaymentCharges |-> row.early_repayment_charges,
      lenderType |-> row.lender_type ]

Min(a, b) == IF a < b THEN a ELSE b
Max(a, b) == IF a > b THEN a ELSE b

\* ORDER BY interest_rate ASC LIMIT n: every order of the matching rows that is
\* ascending in interest_rate (rows of equal rate come in any order), cut at n.
OrderedRows(table, match, limit) ==
    LET n == Cardinality(match)
        orders == {s \in [1..n -> match] :
                      /\ \A a, b \in 1..n : a /= b => s[a] /= s[b]
                      /\ \A a, b \in 1..n : a < b => table[s[a]].interest_rate <= table[s[b]].interest_rate}
        lim == Min(n, limit)
    IN  {[k \in 1..lim |-> RowObject(table[s[k]])] : s \in orders}
\* The SELECT of the search handler.
SelectRows(table, q) ==
    OrderedRows(table, {i \in 1..Len(table) : Where(table[i], q)}, EffectiveLimit(q.limit))
\* The SELECT of the listing: FROM deals ORDER BY interest_rate ASC LIMIT 100
LatestRows(table) == OrderedRows(table, 1..Len(table), 100)

\* rows.map(deal => addMetrics(deal, baselineMonthly))
Normalized(rows, baselineMonthly) == [k \in 1..Len(rows) |-> addMetrics(rows[k], baselineMonthly)]
\* A handler that goes to the live source whatever the query returned.
AlwaysFallback(normalized) == TRUE
\* if (normalized.length === 0)
NeedsFallback(normalized) == Len(normalized) = 0

\* The callback of scraped.filter(...).
MemoryFilter(d, q) ==
    /\ ~(Truthy(q.maxRate) /\ ~(q.maxRate /= NaN /\ d.interestRate <= q.maxRate))
    /\ ~(Truthy(q.minLTV) /\ ~(q.minLTV /= NaN /\ d.maxLTV >= q.minLTV))
    /\ ~(TruthyStr(q.dealType) /\ d.dealType /= q.dealType)
    /\ ~(TruthyStr(q.lenderType) /\ d.lenderType /= q.lenderType)
    /\ ~(Truthy(q.termYears) /\ ~(q.termYears /= NaN /\ d.termYears = ParseInt(q.termYears) * 1000))
    /\ ~(q.freeValuation = "true" /\ ~d.freeValuation)
    /\ ~(q.freeLegalWork = "true" /\ ~d.freeLegalWork)
    /\ ~(Truthy(q.maxArrangementFee) /\ ~(q.maxArrangementFee /= NaN /\ d.arrangementFee <= q.maxArrangementFee))
    /\ ~(q.hasCashback = "true" /\ ~(d.cashback \notin {0, NaN, Undefined, Null} /\ d.cashback > 0))

\* Array.prototype.slice(0, n): the first n elements, or for a negative n all
\* but the last -n.
Slice(s, n) == IF n >= 0 THEN SubSeq(s, 1, Min(n, Len(s))) ELSE SubSeq(s, 1, Max(0, Len(s) + n))

\* scraped.filter(...).slice(0, isNaN(lim) ? 50 : lim).map(addMetrics)
FallbackBody(scraped, q) ==
    LET kept == SelectSeq(scraped, LAMBDA d : MemoryFilter(d, q))
        cut == Slice(kept, EffectiveLimit(q.limit))
    IN  Normalized(cut, Baseline(q))

\* A request arrives; the handler builds the statement and awaits pool.query.
StartSearch(s) ==
    /\ pc[s] = "idle"
    /\ \E q \in Queries : query' = [query EXCEPT ![s] = q]
    /\ pc' = [pc EXCEPT ![s] = "query"]
    /\ UNCHANGED << dbVars, clock, runs, scrapeVars, passVars, harnessVars, stage, response, sawEmpty, acquisitions >>

\* pool.query settles.  Rows: they are sent.  No rows: scrape() is called in the
\* try block.  A rejection: the catch block is entered and calls scrape().
RunQuery(s) ==
    /\ pc[s] = "query"
    /\ query[s].path = "/api/deals/search"
    /\ sawEmpty' = [sawEmpty EXCEPT ![s] = (Len(deals) = 0)]
    /\ \E dbUp \in BOOLEAN :
        IF ~dbUp \/ QueryRejected(query[s])
        THEN /\ stage' = [stage EXCEPT ![s] = "catch"]
             /\ pc' = [pc EXCEPT ![s] = "launch"]
             /\ BeginScrape(s)
             /\ acquisitions' = [acquisitions EXCEPT ![s] = @ + 1]
             /\ UNCHANGED response
        ELSE \E rows \in SelectRows(deals, query[s]) :
                IF NeedsFallback(Normalized(rows, Baseline(query[s])))
                THEN /\ pc' = [pc EXCEPT ![s] = "launch"]
                     /\ BeginScrape(s)
                     /\ acquisitions' = [acquisitions EXCEPT ![s] = @ + 1]
                     /\ UNCHANGED << stage, response >>
                ELSE /\ response' = [response EXCEPT ![s] =
                            [status |-> 200, body |-> Normalized(rows, Baseline(query[s]))]]
                     /\ pc' = [pc EXCEPT ![s] = "responded"]
                     /\ UNCHANGED << stage, scrapeVars, acquisitions >>
    /\ UNCHANGED << dbVars, clock, runs, passVars, harnessVars, query >>

\* A handler that also upserts the deal it scraped first before it answers.
SearchScrapedSaving(s) ==
    /\ s \in Searches
    /\ pc[s] = "scraped"
    /\ IF ~scrapeResult[s].threw
       THEN /\ response' = [response EXCEPT ![s] =
                    [status |-> 200, body |-> FallbackBody(scrapeResult[s].deals, query[s])]]
            /\ pc' = [pc EXCEPT ![s] = "responded"]
            /\ deals' = (IF Len(scrapeResult[s].deals) > 0
                         THEN LET row == ProposedRow(DealParams(scrapeResult[s].deals[1], Source), clock)
                              IN  IF RowRejected(row) THEN deals ELSE Upsert(deals, row, clock)
                         ELSE deals)
            /\ UNCHANGED << stage, scrapeVars, acquisitions >>
       ELSE IF stage[s] = "try"
            THEN /\ stage' = [stage EXCEPT ![s] = "catch"]
                 /\ pc' = [pc EXCEPT ![s] = "launch"]
                 /\ BeginScrape(s)
                 /\ acquisitions' = [acquisitions EXCEPT ![s] = @ + 1]
                 /\ UNCHANGED << response, deals >>
            ELSE /\ response' = [response EXCEPT ![s] = [status |-> 500, body |-> <<>>]]
                 /\ pc' = [pc EXCEPT ![s] = "responded"]
                 /\ UNCHANGED << stage, scrapeVars, acquisitions, deals >>
    /\ UNCHANGED << scrape_logs, clock, runs, passVars, harnessVars, query, sawEmpty >>

\* scrape() settled for the handler.  Fulfilled: the filtered, cut list is sent.
\* Rejected in the try block: the catch block calls scrape() again.  Rejected in
\* the catch block: status 500.
SearchScraped(s) ==
    /\ s \in Searches
    /\ pc[s] = "scraped"
    /\ IF ~scrapeResult[s].threw
       THEN /\ response' = [response EXCEPT ![s] =
                    [status |-> 200, body |-> FallbackBody(scrapeResult[s].deals, query[s])]]
            /\ pc' = [pc EXCEPT ![s] = "responded"]
            /\ UNCHANGED << stage, scrapeVars, acquisitions >>
       ELSE IF stage[s] = "try"
            THEN /\ stage' = [stage EXCEPT ![s] = "catch"]
                 /\ pc' = [pc EXCEPT ![s] = "launch"]
                 /\ BeginScrape(s)
                 /\ acquisitions' = [acquisitions EXCEPT ![s] = @ + 1]
                 /\ UNCHANGED response
            ELSE /\ response' = [response EXCEPT ![s] = [status |-> 500, body |-> <<>>]]
                 /\ pc' = [pc EXCEPT ![s] = "responded"]
                 /\ UNCHANGED << stage, scrapeVars, acquisitions >>
    /\ UNCHANGED << dbVars, clock, runs, passVars, harnessVars, query, sawEmpty >>

(************************** GET /api/deals/latest ****************************)
\* A listing request arrives; the handler awaits pool.query.
StartLatest(s) ==
    /\ pc[s] = "idle"
    /\ \E q \in LatestQueries : query' = [query EXCEPT ![s] = q]
    /\ pc' = [pc EXCEPT ![s] = "query"]
    /\ UNCHANGED << dbVars, clock, runs, scrapeVars, passVars, harnessVars, stage, response, sawEmpty, acquisitions >>

\* pool.query settles.  Rows: they are sent with their metrics.  No rows, or a
\* rejection (the catch block): the sample deals are sent with their metrics.
RunLatest(s) ==
    /\ pc[s] = "query"
    /\ query[s].path = "/api/deals/latest"
    /\ sawEmpty' = [sawEmpty EXCEPT ![s] = (Len(deals) = 0)]
    /\ \E dbUp \in BOOLEAN :
        IF ~dbUp
        THEN /\ stage' = [stage EXCEPT ![s] = "catch"]
             /\ response' = [response EXCEPT ![s] =
                    [status |-> 200, body |-> Normalized(getSampleDeals, Baseline(query[s]))]]
        ELSE /\ UNCHANGED stage
             /\ \E rows \in LatestRows(deals) :
                    response' = [response EXCEPT ![s] =
                        [status |-> 200,
                         body |-> IF Len(Normalized(rows, Baseline(query[s]))) = 0
                                  THEN Normalized(getSampleDeals, Baseline(query[s]))
                                  ELSE Normalized(rows, Baseline(query[s]))]]
    /\ pc' = [pc EXCEPT ![s] = "responded"]
    /\ UNCHANGED << dbVars, clock, runs, scrapeVars, passVars, harnessVars, query, acquisitions >>

\* The response is on the wire; the handler is over.
SearchDone(s) ==
    /\ s \in Searches
    /\ pc[s] = "responded"
    /\ pc' = [pc EXCEPT ![s] = "idle"]
    /\ BeginScrape(s)
    /\ query' = [query EXCEPT ![s] = NoQuery]
    /\ stage' = [stage EXCEPT ![s] = "try"]
    /\ response' = [response EXCEPT ![s] = NoResponse]
    /\ sawEmpty' = [sawEmpty EXCEPT ![s] = FALSE]
    /\ acquisitions' = [acquisitions EXCEPT ![s] = 0]
    /\ UNCHANGED << dbVars, clock, runs, passVars, harnessVars >>

(**************************** specifications ********************************)
\* The ingestion pipeline: triggers, scrape(), saveDeals, logScrape.
Next ==
    \/ Tick
    \/ \E p \in Passes : Launch(p)
    \/ \E p \in Passes : LoadPage(p)
    \/ \E p \in Passes : CloseBrowser(p)
    \/ \E p \in Passes : StartPass(p)
    \/ \E p \in Passes : PassScraped(p)
    \/ \E p \in Passes : SaveDeal(p)
    \/ \E p \in Passes : LogSuccess(p)
    \/ \E p \in Passes : LogError(p)
    \/ \E p \in Passes : PassReturned(p)

Spec == Init /\ [][Next]_vars

\* The rows ingestion can store: the accepted cards, as saveDeals proposes them.
SeedRows ==
    {row \in {ProposedRow(DealParams(CardDeal(c), Source), 0) : c \in {k \in Cards : RateAccepted(k.rate)}} :
        ~RowRejected(row)}

RECURSIVE UpsertAll(_, _, _)
UpsertAll(table, rows, i) ==
    IF i > Len(rows) THEN table ELSE UpsertAll(Upsert(table, rows[i], 0), rows, i + 1)

\* The tables that up to MaxSeed upserts leave, the empty table of a fresh
\* deployment among them.
SeedTables == {UpsertAll(<<>>, rows, 1) : rows \in SeqsUpTo(SeedRows, MaxSeed)}

InitSearch ==
    /\ deals \in SeedTables
    /\ order = NoOrder
    /\ metrics = NoMetrics
    /\ save = NoSave
    /\ InitTasks

\* The query path: search and listing requests against a table that ingestion left.
NextSearch ==
    \/ \E s \in Searches : StartSearch(s)
    \/ \E s \in Searches : RunQuery(s)
    \/ \E s \in Searches : StartLatest(s)
    \/ \E s \in Searches : RunLatest(s)
    \/ \E s \in Searches : Launch(s)
    \/ \E s \in Searches : LoadPage(s)
    \/ \E s \in Searches : CloseBrowser(s)
    \/ \E s \in Searches : SearchScraped(s)
    \/ \E s \in Searches : SearchDone(s)

SpecSearch == InitSearch /\ [][NextSearch]_vars

\* One iteration of the loop of saveDeals with the database reachable, as a
\* function of the table.
SaveInto(table, deal, now) ==
    LET row == ProposedRow(DealParams(deal, Source), now)
    IN  IF RowRejected(row) THEN table ELSE Upsert(table, row, now)

\* The records scrape() can return.
ScrapedDeals == {CardDeal(c) : c \in {k \in Cards : RateAccepted(k.rate)}}

\* Two records a and b and a table; saveDeals is applied to one copy of the
\* table in the order a, b and to another in the order b, a.
InitOrder ==
    /\ deals = <<>>
    /\ order \in {[step |-> "start", a |-> a, b |-> b, base |-> t, ab |-> t, ba |-> t] :
                    a \in ScrapedDeals, b \in ScrapedDeals, t \in SeedTables}
    /\ metrics = NoMetrics
    /\ save = NoSave
    /\ InitTasks

OrderFirst ==
    /\ order.step = "start"
    /\ order' = [order EXCEPT !.step = "first",
                              !.ab = SaveInto(order.ab, order.a, clock),
                              !.ba = SaveInto(order.ba, order.b, clock)]
    /\ UNCHANGED << dbVars, clock, runs, pc, scrapeVars, passVars, searchVars, metrics, save >>

OrderSecond ==
    /\ order.step = "first"
    /\ order' = [order EXCEPT !.step = "second",
                              !.ab = SaveInto(order.ab, order.b, clock),
                              !.ba = SaveInto(order.ba, order.a, clock)]
    /\ UNCHANGED << dbVars, clock, runs, pc, scrapeVars, passVars, searchVars, metrics, save >>

NextOrder == Tick \/ OrderFirst \/ OrderSecond

SpecOrder == InitOrder /\ [][NextOrder]_vars

\* The deals addMetrics is handed: rows read from the table, records scrape()
\* returned, the sample deals.
MetricsDeals ==
    {RowObject(row) : row \in SeedRows} \cup ScrapedDeals
        \cup {getSampleDeals[k] : k \in 1..Len(getSampleDeals)}
\* The baselines a request can carry: none, a text that is no number, amounts
\* in whole pence and an amount with a third decimal.
MetricsBaselines == {Undefined, NaN, 600000, 700000, 643004}

InitMetrics ==
    /\ deals = <<>>
    /\ order = NoOrder
    /\ metrics \in {[step |-> "call", deal |-> d, baselineMonthly |-> b] :
                        d \in MetricsDeals, b \in MetricsBaselines}
    /\ save = NoSave
    /\ InitTasks

\* addMetrics(deal, baselineMonthly) returns.
ApplyMetrics ==
    /\ metrics.step = "call"
    /\ metrics' = [step |-> "return", deal |-> metrics.deal,
                   baselineMonthly |-> metrics.baselineMonthly,
                   result |-> addMetrics(metrics.deal, metrics.baselineMonthly)]
    /\ UNCHANGED << dbVars, clock, runs, pc, scrapeVars, passVars, searchVars, order, save >>

NextMetrics == ApplyMetrics

SpecMetrics == InitMetrics /\ [][NextMetrics]_vars

\* The passes that run at once: the cron job, the start-up timer and the
\* POST handlers call runAllScrapers with no guard against a pass in flight.
Overlapping == {<<"pass", i>> : i \in 1..MaxOverlap}
\* What scrape() settled with for such a pass: a rejection, or the deals of a
\* page of HSBC cards (which share keys).
OverlapResults ==
    {[threw |-> TRUE, deals |-> <<>>, error |-> "Protocol error: Connection closed"]}
    \cup {[threw |-> FALSE, deals |-> Extract(page), error |-> ""] :
            page \in SeqsUpTo({c \in Cards : c.lender = "HSBC" /\ RateAccepted(c.rate)}, MaxCards)}

\* The passes are all in flight over a fresh table, each at the point where
\* its scrape() has settled.
InitOverlap ==
    /\ deals = <<>>
    /\ scrape_logs = <<>>
    /\ clock = 0
    /\ runs = MaxOverlap
    /\ pc = [t \in Overlapping \cup Searches |-> IF IsPass(t) THEN "scraped" ELSE "idle"]
    /\ browser = [t \in Overlapping \cup Searches |-> "undefined"]
    /\ scrapeDeals = [t \in Overlapping \cup Searches |-> <<>>]
    /\ caught = [t \in Overlapping \cup Searches |-> ""]
    /\ \E settled \in [Overlapping -> OverlapResults] :
            scrapeResult = [t \in Overlapping \cup Searches |->
                                IF IsPass(t) THEN settled[t] ELSE NoResult]
    /\ msmDeals = [p \in Overlapping |-> <<>>]
    /\ idx = [p \in Overlapping |-> 1]
    /\ savedCount = [p \in Overlapping |-> 0]
    /\ results = [p \in Overlapping |-> <<>>]
    /\ outcomes = [p \in Overlapping |-> <<>>]
    /\ audit = [p \in Overlapping |-> <<>>]
    /\ query = [s \in Searches |-> NoQuery]
    /\ stage = [s \in Searches |-> "try"]
    /\ response = [s \in Searches |-> NoResponse]
    /\ sawEmpty = [s \in Searches |-> FALSE]
    /\ acquisitions = [s \in Searches |-> 0]
    /\ order = NoOrder
    /\ metrics = NoMetrics
    /\ save = NoSave

\* The awaits of the passes settle in any order.
NextOverlap ==
    \/ Tick
    \/ \E p \in Overlapping : PassScraped(p)
    \/ \E p \in Overlapping : SaveDeal(p)
    \/ \E p \in Overlapping : LogSuccess(p)
    \/ \E p \in Overlapping : LogError(p)

SpecOverlap == InitOverlap /\ [][NextOverlap]_vars

\* The flags a record handed to saveDeals can carry: none, one, both.
CandidateFlags ==
    { <<>>,
      [freeValuation |-> TRUE],
      [freeValuation |-> FALSE, freeLegalWork |-> TRUE] }
\* Records handed to saveDeals: every optional property is missing, or given,
\* or (a number) the NaN that parseFloat made of a text without a number.
Candidates ==
    { flags @@
      [ lenderName |-> "HSBC", productName |-> "2 Year Fixed", interestRate |-> 4190,
        dealType |-> dt, termYears |-> ty, maxLTV |-> ltv, arrangementFee |-> af,
        valuationFee |-> vf, legalFees |-> lf, cashback |-> cb,
        overpaymentAllowance |-> Undefined, earlyRepaymentCharges |-> "undefined",
        lenderType |-> lt ] :
        dt \in {"undefined", "Tracker"}, ty \in {Undefined, 5000},
        ltv \in {Undefined, NaN, 60000}, af \in {Undefined, NaN, 999000},
        vf \in {Undefined, 150000}, lf \in {Undefined, 300000},
        cb \in {Undefined, NaN, 250000}, lt \in {"undefined", "Offshore - Guernsey"},
        flags \in CandidateFlags }
\* No card: the record was not made by the adapter.
NoCard == [rate |-> NaN, lender |-> NoElement, product |-> NoElement, fee |-> NaN, ltv |-> NaN]

\* A record is handed to saveDeals over an empty table: either one the adapter
\* made of a result card, or one of the candidates.
InitSave ==
    /\ deals = <<>>
    /\ order = NoOrder
    /\ metrics = NoMetrics
    /\ save \in {[step |-> "call", from |-> "card", card |-> c, deal |-> CardDeal(c), table |-> <<>>] :
                    c \in {k \in Cards : RateAccepted(k.rate)}}
               \cup {[step |-> "call", from |-> "record", card |-> NoCard, deal |-> d, table |-> <<>>] :
                    d \in Candidates}
    /\ InitTasks

\* The iteration of the loop of saveDeals for the record, the database reachable.
ApplySave ==
    /\ save.step = "call"
    /\ save' = [save EXCEPT !.step = "return", !.table = SaveInto(save.table, save.deal, clock)]
    /\ UNCHANGED << dbVars, clock, runs, pc, scrapeVars, passVars, searchVars, order, metrics >>

NextSave == ApplySave

SpecSave == InitSave /\ [][NextSave]_vars

(******************************* properties *********************************)
\* The stored key of a row, column by column.
KeyAt(table, i) == <<table[i].lender_name, table[i].product_name, table[i].interest_rate>>
\* The key under which a scraped record is stored: its rate in hundredths.
StoredKeyOf(d) == <<d.lenderName, d.productName, (d.interestRate + 5) \div 10>>
RowsWithKey(table, k) == {i \in 1..Len(table) : KeyAt(table, i) = k}
CountTrue(flags) == Cardinality({k \in 1..Len(flags) : flags[k]})
\* The step in which the upsert of the current record of pass p succeeds.
SavedStep(p) ==
    /\ pc[p] = "save"
    /\ idx[p] <= Len(msmDeals[p])
    /\ outcomes'[p] = Append(outcomes[p], TRUE)
\* A row with every column but arrangement_fee and scraped_at.
FixedColumns(row) ==
    << row.lender_name, row.product_name, row.interest_rate, row.deal_type, row.term_years,
       row.max_ltv, row.valuation_fee, row.legal_fees, row.cashback, row.free_valuation,
       row.free_legal_work, row.overpayment_allowance, row.early_repayment_charges,
       row.lender_type, row.source >>

\* C1: after any sequence of ingestion passes, re-ingestion included, no two
\* rows of the deals table share (lender_name, product_name, interest_rate).
C1_UniqueKey ==
    \A i, j \in 1..Len(deals) : i /= j => KeyAt(deals, i) /= KeyAt(deals, j)

\* A second pass has upserted two records with success and the table holds one
\* row: records already stored were ingested again.
C1_Witness ==
    \E p \in Passes :
        /\ runs = 2
        /\ pc[p] = "done"
        /\ savedCount[p] = 2
        /\ Len(deals) = 1

\* C2: a successful upsert leaves exactly one row with the record's key; when
\* the key was stored already (the record is ingested again), no row is added,
\* no row changes its lender, product or rate, and the row of that key gets the
\* current timestamp.
C2_IdempotentIngest ==
    [][\A p \in Passes :
        SavedStep(p) =>
            LET k == StoredKeyOf(msmDeals[p][idx[p]])
            IN  /\ Cardinality(RowsWithKey(deals', k)) = 1
                /\ RowsWithKey(deals, k) /= {} =>
                    /\ Len(deals') = Len(deals)
                    /\ \A i \in 1..Len(deals) : KeyAt(deals', i) = KeyAt(deals, i)
                    /\ \A i \in RowsWithKey(deals', k) : deals'[i].scraped_at = clock
      ]_vars

\* One batch held the same record twice, both upserts succeeded at different
\* instants and one row is stored, stamped by the second.
C2_Witness ==
    \E p \in Passes :
        /\ pc[p] = "save"
        /\ Len(msmDeals[p]) = 2
        /\ msmDeals[p][1] = msmDeals[p][2]
        /\ outcomes[p] = <<TRUE, TRUE>>
        /\ Len(deals) = 1
        /\ deals[1].scraped_at = clock
        /\ clock > 0

\* C3: when an upsert hits a stored key, the row of that key changes in
\* arrangement_fee (to the fee of the record) and scraped_at only, and no other
\* row changes; every other column keeps what the first insert wrote.
C3_ConflictFrame ==
    [][\A p \in Passes :
        (SavedStep(p) /\ RowsWithKey(deals, StoredKeyOf(msmDeals[p][idx[p]])) /= {}) =>
            LET d == msmDeals[p][idx[p]]
                k == StoredKeyOf(d)
            IN  /\ Len(deals') = Len(deals)
                /\ \A i \in 1..Len(deals) :
                    /\ FixedColumns(deals'[i]) = FixedColumns(deals[i])
                    /\ i \in RowsWithKey(deals, k) =>
                            deals'[i].arrangement_fee = (d.arrangementFee + 5) \div 10
                    /\ i \notin RowsWithKey(deals, k) => deals'[i] = deals[i]
      ]_vars

\* A row inserted with max LTV 60 and fee 999 was hit by a record of the same
\* key with max LTV 75 and no fee: the fee is 0, the max LTV still 60.
C3_Witness ==
    \E i \in 1..Len(deals) :
        /\ deals[i].max_ltv = 6000
        /\ deals[i].arrangement_fee = 0

\* The two records of `order` are stored under one key.
OrderSameKey == StoredKeyOf(order.a) = StoredKeyOf(order.b)
OrderRow(d) == ProposedRow(DealParams(d, Source), 0)
WithoutTimestamps(table) ==
    [i \in 1..Len(table) |-> <<FixedColumns(table[i]), table[i].arrangement_fee>>]

\* C4 as stated: two records of one key, upserted in either order, leave the
\* same table up to timestamps.
C4_Commutative ==
    (order.step = "second" /\ OrderSameKey) =>
        WithoutTimestamps(order.ab) = WithoutTimestamps(order.ba)

\* C4 amended: on one key the arrangement fee is that of the record upserted
\* last and every other column that of the row stored first.  Either order
\* leaves exactly one row of the key; its fee is the fee of the later record;
\* its other columns are those of the row the table held before, or else of the
\* earlier record.  So the two orders agree, up to timestamps, when the records
\* carry equal fees and the key was stored before, or when the records agree in
\* every column.
C4_LastFeeFirstRest ==
    (order.step = "second" /\ OrderSameKey
        /\ ~RowRejected(OrderRow(order.a)) /\ ~RowRejected(OrderRow(order.b))) =>
        LET k == StoredKeyOf(order.a)
            ra == OrderRow(order.a)
            rb == OrderRow(order.b)
            held == RowsWithKey(order.base, k)
        IN  /\ Cardinality(RowsWithKey(order.ab, k)) = 1
            /\ Cardinality(RowsWithKey(order.ba, k)) = 1
            /\ \A i \in RowsWithKey(order.ab, k) :
                /\ order.ab[i].arrangement_fee = rb.arrangement_fee
                /\ FixedColumns(order.ab[i]) =
                     IF held = {} THEN FixedColumns(ra) ELSE FixedColumns(order.base[i])
            /\ \A i \in RowsWithKey(order.ba, k) :
                /\ order.ba[i].arrangement_fee = ra.arrangement_fee
                /\ FixedColumns(order.ba[i]) =
                     IF held = {} THEN FixedColumns(rb) ELSE FixedColumns(order.base[i])
            /\ ((held /= {} /\ ra.arrangement_fee = rb.arrangement_fee)
                    \/ (FixedColumns(ra) = FixedColumns(rb) /\ ra.arrangement_fee = rb.arrangement_fee))
                => WithoutTimestamps(order.ab) = WithoutTimestamps(order.ba)

\* Two records of one key with different fees and different max LTV went into
\* an empty table in both orders.
C4_Witness ==
    /\ order.step = "second"
    /\ OrderSameKey
    /\ order.base = <<>>
    /\ Len(order.ab) = 1 /\ Len(order.ba) = 1
    /\ order.ab[1].arrangement_fee /= order.ba[1].arrangement_fee
    /\ order.ab[1].max_ltv /= order.ba[1].max_ltv

\* C5 as stated: when scrape() rejected, the returned results hold an entry of
\* the source with count 0.
C5_FailureEntry ==
    \A p \in Passes :
        (pc[p] = "done" /\ scrapeResult[p].threw) =>
            \E k \in 1..Len(results[p]) :
                results[p][k].source = Source /\ results[p][k].deals = 0

\* C6 as stated: the count returned for the source is the number of its records
\* whose upsert succeeded in the pass.
C6_CountIsPersisted ==
    \A p \in Passes :
        pc[p] = "done" =>
            \A k \in 1..Len(results[p]) : results[p][k].deals = CountTrue(outcomes[p])

\* C7: a failed upsert does not end the batch.  While saveDeals runs, the
\* records before the loop position have all been attempted and savedCount is
\* the number of them that succeeded; when the pass is over every record of the
\* batch has been attempted and the row handed to scrape_logs carries status
\* 'success' and the number of upserts that succeeded.
C7_BestEffortBatch ==
    \A p \in Passes :
        /\ pc[p] = "save" =>
            /\ Len(outcomes[p]) = idx[p] - 1
            /\ idx[p] <= Len(msmDeals[p]) + 1
            /\ savedCount[p] = CountTrue(outcomes[p])
        /\ (pc[p] = "done" /\ ~scrapeResult[p].threw) =>
            /\ Len(outcomes[p]) = Len(msmDeals[p])
            /\ Len(audit[p]) = 1
            /\ audit[p][1].row.status = "success"
            /\ audit[p][1].row.deals_found = CountTrue(outcomes[p])

\* The first upsert of a batch of two failed, the second succeeded, and the
\* audit row with count 1 is in scrape_logs.
C7_Witness ==
    \E p \in Passes :
        /\ pc[p] = "done"
        /\ outcomes[p] = <<FALSE, TRUE>>
        /\ audit[p][1].written
        /\ scrape_logs[Len(scrape_logs)].deals_found = 1

WrittenRows(p) == {k \in 1..Len(audit[p]) : audit[p][k].written}

\* C8 as stated: a completed pass has left exactly one row in scrape_logs for
\* its source.
C8_ExactlyOneRow ==
    \A p \in Passes : pc[p] = "done" => Cardinality(WrittenRows(p)) = 1

\* C8 amended: a completed pass has called logScrape exactly once for its
\* source, whether scrape() fulfilled or rejected and whatever the upserts did;
\* the call leaves one row when its INSERT succeeds and none when it fails (the
\* failure is caught), never two.  The status of the call is 'error' exactly
\* when scrape() rejected.
C8_OneAuditCall ==
    /\ \A p \in Passes :
        pc[p] = "done" =>
            /\ Len(audit[p]) = 1
            /\ audit[p][1].row.source = Source
            /\ audit[p][1].row.status = (IF scrapeResult[p].threw THEN "error" ELSE "success")
            /\ audit[p][1].written =>
                    \E k \in 1..Len(scrape_logs) : scrape_logs[k] = audit[p][1].row
    /\ Len(scrape_logs) <= runs

\* Two passes are over, one with a failed upsert and one whose scrape()
\* rejected; each left its row.
C8_Witness ==
    /\ runs = 2
    /\ Len(scrape_logs) = 2
    /\ scrape_logs[1].status = "success"
    /\ scrape_logs[2].status = "error"
    /\ \E p \in Passes : pc[p] = "done" /\ scrapeResult[p].threw

\* C9 as stated: when launch, navigation or extraction failed, scrape() rejects
\* and the pass hands scrape_logs a row with status 'error', count 0 and the
\* message of the failure.
C9_AcquisitionError ==
    \A p \in Passes :
        (pc[p] = "done" /\ caught[p] /= "") =>
            /\ scrapeResult[p].threw
            /\ \E k \in 1..Len(audit[p]) :
                /\ audit[p][k].row.status = "error"
                /\ audit[p][k].row.deals_found = 0
                /\ audit[p][k].row.error_message = caught[p]

\* The filters of a search as the query contract states them, on a returned
\* deal: a given filter must hold, an absent one imposes nothing.
Satisfies(d, q) ==
    /\ Truthy(q.maxRate) => (q.maxRate /= NaN /\ d.interestRate <= q.maxRate)
    /\ Truthy(q.minLTV) => (q.minLTV /= NaN /\ d.maxLTV >= q.minLTV)
    /\ TruthyStr(q.dealType) => d.dealType = q.dealType
    /\ TruthyStr(q.lenderType) => d.lenderType = q.lenderType
    /\ Truthy(q.termYears) => d.termYears = q.termYears
    /\ q.freeValuation = "true" => d.freeValuation
    /\ q.freeLegalWork = "true" => d.freeLegalWork
    /\ Truthy(q.maxArrangementFee) => (q.maxArrangementFee /= NaN /\ d.arrangementFee <= q.maxArrangementFee)
    /\ q.hasCashback = "true" => d.cashback > 0

\* C10 as stated: a search that found the deals table empty answers with a
\* non-empty list of deals that satisfy the filters.
C10_NonEmptyFallback ==
    \A s \in Searches :
        (pc[s] = "responded" /\ sawEmpty[s]) =>
            /\ response[s].status = 200
            /\ Len(response[s].body) > 0
            /\ \A k \in 1..Len(response[s].body) : Satisfies(response[s].body[k], query[s])

\* The request of task s is a search.
IsSearch(s) == query[s].path = "/api/deals/search"
\* No scrape() was called for the request of task s.
NoAcquisition(s) == browser[s] = "undefined" /\ caught[s] = "" /\ ~scrapeResult[s].threw
\* What the repository query of the request can return, with metrics.
RepositoryAnswers(s) ==
    {Normalized(rows, Baseline(query[s])) : rows \in SelectRows(deals, query[s])}

\* The awaited query of a search settles: the handler answers or starts scrape().
SearchCascadeStep ==
    \A s \in Searches :
        (pc[s] = "query" /\ IsSearch(s) /\ pc'[s] /= "query") =>
            /\ pc'[s] \in {"responded", "launch"}
            /\ pc'[s] = "responded" =>
                /\ response'[s].status = 200
                /\ Len(response'[s].body) > 0
                /\ response'[s].body \in RepositoryAnswers(s)
                /\ browser'[s] = "undefined" /\ caught'[s] = "" /\ ~scrapeResult'[s].threw
            /\ pc'[s] = "launch" =>
                \/ stage'[s] = "catch"
                \/ <<>> \in RepositoryAnswers(s)

\* What the repository query of the listing can return, with metrics.
ListingAnswers(s) ==
    {Normalized(rows, Baseline(query[s])) : rows \in LatestRows(deals)}

\* The awaited query of the listing settles: the handler answers.
ListingCascadeStep ==
    \A s \in Searches :
        (pc[s] = "query" /\ ~IsSearch(s) /\ pc'[s] /= "query") =>
            /\ pc'[s] = "responded"
            /\ response'[s].status = 200
            /\ \/ Len(response'[s].body) > 0 /\ response'[s].body \in ListingAnswers(s)
               \/ /\ response'[s].body = Normalized(getSampleDeals, Baseline(query[s]))
                  /\ stage'[s] = "catch" \/ <<>> \in ListingAnswers(s)

\* C11: the cascade goes from the repository to the later stages and stops at
\* the first that yields data.  When the repository query of a search returns
\* rows, the answer is status 200 with exactly those rows and no scrape() is
\* called; scrape() is started only when the query failed or returned no row.
\* The listing answers with its rows when there are some and with the static
\* sample set only when its query failed or returned no row.
C11_CascadeOrder == [][SearchCascadeStep /\ ListingCascadeStep]_vars

\* A search was answered from the repository: rows sent, no scrape() called.
C11_Witness ==
    \E s \in Searches :
        /\ pc[s] = "responded"
        /\ IsSearch(s)
        /\ stage[s] = "try"
        /\ NoAcquisition(s)
        /\ Len(response[s].body) > 0
        /\ Len(deals) > 0

\* C12 as stated: no read request (search, listing) is answered with an error
\* status.
C12_NoErrorResponse ==
    \A s \in Searches : pc[s] = "responded" => response[s].status = 200

\* The limit of a search as the query contract states it: the given positive
\* integer, and 50 when none is given or the value is no number, zero or negative.
ClaimedLimit(limit) ==
    IF limit \in {Undefined, NaN} \/ ParseInt(limit) <= 0 THEN 50 ELSE ParseInt(limit)
\* The data set the answer of the search of task s was drawn from: the table,
\* or what scrape() returned.
Consulted(s) ==
    IF NoAcquisition(s) THEN [i \in 1..Len(deals) |-> RowObject(deals[i])]
    ELSE scrapeResult[s].deals
\* The search of task s was answered with a list.
Answered(s) == pc[s] = "responded" /\ IsSearch(s) /\ response[s].status = 200

\* The limit of the query is one the contract and the code read alike.
PlainLimit(q) == ClaimedLimit(q.limit) = EffectiveLimit(q.limit)

\* C13 as stated: every deal a search returns satisfies all the supplied
\* filters, and short of the limit no deal of the consulted set that satisfies
\* them is left out (stated for the limits that are absent, no number or
\* positive; zero and negative limits are the matter of C15).
C13_FilterConjunction ==
    \A s \in Searches :
        Answered(s) =>
            /\ \A k \in 1..Len(response[s].body) : Satisfies(response[s].body[k], query[s])
            /\ (PlainLimit(query[s]) /\ Len(response[s].body) < ClaimedLimit(query[s].limit)) =>
                    \A i \in 1..Len(Consulted(s)) :
                        Satisfies(Consulted(s)[i], query[s]) =>
                            \E k \in 1..Len(response[s].body) :
                                response[s].body[k] = addMetrics(Consulted(s)[i], Baseline(query[s]))

\* C14 as stated: the list a search returns is in ascending order of interest
\* rate.
C14_AscendingRate ==
    \A s \in Searches :
        Answered(s) =>
            \A i, j \in 1..Len(response[s].body) :
                i < j => response[s].body[i].interestRate <= response[s].body[j].interestRate

\* The deals of the consulted set that the filter of the code lets through.
Passing(s) ==
    IF NoAcquisition(s) THEN {i \in 1..Len(deals) : Where(deals[i], query[s])}
    ELSE {i \in 1..Len(scrapeResult[s].deals) : MemoryFilter(scrapeResult[s].deals[i], query[s])}

\* C15 as stated: a search returns the deals that pass its filter up to the
\* effective limit, which is 50 when no limit is given and for every limit that
\* is no number, zero or negative.
C15_EffectiveLimit ==
    \A s \in Searches :
        Answered(s) =>
            Len(response[s].body) = Min(ClaimedLimit(query[s].limit), Cardinality(Passing(s)))

\* C16 as stated: on the rows of the table, the in-memory filter selects
\* exactly the rows the repository query selects, for every query; a query the
\* database rejects for a filter value selects no row.
C16_SameFilter ==
    \A s \in Searches :
        (pc[s] /= "idle" /\ IsSearch(s)) =>
            \A i \in 1..Len(deals) :
                MemoryFilter(RowObject(deals[i]), query[s])
                    <=> (~ParamsRejected(query[s]) /\ Where(deals[i], query[s]))

\* The payment as the Metrics Calculator is specified: the amortization formula
\* when the monthly rate is positive, else principal / n.
ClaimedPayment(rate) ==
    IF monthlyRate(rate) > 0 THEN RoundMicro(monthlyPayment(rate))
    ELSE RoundMicro(MulDiv(principal, Pow10(4), numPayments))

\* C17 as stated: the monthly payment addMetrics returns is that of the
\* amortization formula when the monthly rate is positive and principal / n
\* when the rate is 0 or missing.
C17_ZeroRatePayment ==
    metrics.step = "return" =>
        metrics.result.monthlyPayment = ClaimedPayment(metrics.deal.interestRate)

\* C18 as stated: with a baseline, monthlySavings is baseline - monthlyPayment
\* and breakEvenMonths is ceil(netFees / monthlySavings) exactly when
\* monthlySavings > 0 and netFees > 0, null otherwise.
C18_BreakEven ==
    (metrics.step = "return" /\ metrics.baselineMonthly \notin {Undefined, NaN}) =>
        LET r == metrics.result
            fees == NetFees(metrics.deal)
        IN  /\ r.monthlySavings = RoundCents(metrics.baselineMonthly - r.monthlyPayment)
            /\ r.breakEvenMonths =
                    IF r.monthlySavings > 0 /\ fees > 0 THEN Ceil(fees, r.monthlySavings) ELSE Null

\* C19 as stated: every persisted deal has an interest rate above 0.
C19_PositiveRate ==
    \A i \in 1..Len(deals) : deals[i].interest_rate > 0

\* C20: for a deal with netFees >= 0 the total cost over 5 years is at least
\* the total cost over 2 years, and neither is below the net fees.
C20_HorizonMonotone ==
    (metrics.step = "return" /\ NetFees(metrics.deal) >= 0) =>
        /\ metrics.result.totalCost5Years >= metrics.result.totalCost2Years
        /\ metrics.result.totalCost2Years >= RoundCents(NetFees(metrics.deal))

\* addMetrics returned for a deal with positive net fees and a positive rate:
\* the cost over 5 years is above the cost over 2 years.
C20_Witness ==
    /\ metrics.step = "return"
    /\ NetFees(metrics.deal) > 0
    /\ metrics.result.monthlyPayment > 0
    /\ metrics.result.totalCost5Years > metrics.result.totalCost2Years

\* The record handed to saveDeals has no NaN among its numbers.
AllCoerced(d) ==
    NaN \notin {d.maxLTV, d.arrangementFee, d.valuationFee, d.legalFees, d.cashback}
\* What a DECIMAL(p,2) column holds of a given amount, and an INT column of a given count.
Given2(x) == (x + 5) \div 10
GivenInt(x) == x \div 1000

SomeNotCoerced ==
    \/ save.from = "card" /\ NaN \in {save.card.fee, save.card.ltv}
    \/ save.from = "record" /\ ~AllCoerced(save.deal)

\* C22 as stated: a record with a fee, cashback or maximum LTV that cannot be
\* coerced to a number is persisted, with that field stored as 0.
C22_CoercionZero ==
    (save.step = "return" /\ SomeNotCoerced) =>
        /\ Len(save.table) = 1
        /\ (save.from = "card" /\ save.card.fee = NaN) => save.table[1].arrangement_fee = 0
        /\ (save.from = "card" /\ save.card.ltv = NaN) => save.table[1].max_ltv = 0
        /\ save.deal.arrangementFee = NaN => save.table[1].arrangement_fee = 0
        /\ save.deal.cashback = NaN => save.table[1].cashback = 0
        /\ save.deal.maxLTV = NaN => save.table[1].max_ltv = 0

\* C22, amended: a record with a fee, cashback or maximum LTV that cannot be
\* coerced to a number is persisted, with a fee or cashback stored as 0 and the
\* maximum LTV stored as its default, 75.
C22_CoercionDefault ==
    (save.step = "return" /\ SomeNotCoerced) =>
        /\ Len(save.table) = 1
        /\ (save.from = "card" /\ save.card.fee = NaN) => save.table[1].arrangement_fee = 0
        /\ (save.from = "card" /\ save.card.ltv = NaN) => save.table[1].max_ltv = 7500
        /\ save.deal.arrangementFee = NaN => save.table[1].arrangement_fee = 0
        /\ save.deal.cashback = NaN => save.table[1].cashback = 0
        /\ save.deal.maxLTV = NaN => save.table[1].max_ltv = 7500

\* The record of a card whose fee and LTV texts hold no number was saved.
C22_Witness ==
    /\ save.step = "return"
    /\ save.from = "card"
    /\ save.card.fee = NaN /\ save.card.ltv = NaN
    /\ Len(save.table) = 1
    /\ save.table[1].arrangement_fee = 0
    /\ save.table[1].max_ltv = 7500

\* The keys stored in a table.
Keys(table) == {KeyAt(table, i) : i \in 1..Len(table)}
\* Every row of the table is in whatever the listing query returns.
AllListed(table) ==
    \A rows \in LatestRows(table) :
        \A i \in 1..Len(table) : \E k \in 1..Len(rows) : rows[k] = RowObject(table[i])

\* C23: the pipeline never deletes a deal.  Every step keeps every stored key
\* and the number of rows does not go down; after a step that wrote the table
\* the listing query still returns every row, those of earlier passes included.
C23_NeverDeleted ==
    [][/\ Keys(deals) \subseteq Keys(deals')
       /\ Len(deals') >= Len(deals)
       /\ deals' /= deals => AllListed(deals')
      ]_vars

\* A second pass saved a deal and is over, and the table holds a row of an
\* earlier instant whose key the second pass did not produce.
C23_Witness ==
    \E p \in Passes :
        /\ pc[p] = "done"
        /\ runs = 2
        /\ \E k \in 1..Len(outcomes[p]) : outcomes[p][k]
        /\ \E i \in 1..Len(deals) :
            /\ KeyAt(deals, i) \notin {StoredKeyOf(msmDeals[p][k]) : k \in 1..Len(msmDeals[p])}
            /\ deals[i].scraped_at < clock

\* Sequence a is an initial part of sequence b.
IsPrefix(a, b) == Len(a) <= Len(b) /\ SubSeq(b, 1, Len(a)) = a

\* C24: the audit log is append-only.  Every step leaves the rows of
\* scrape_logs written so far as they are and in place; the log after the step
\* is the log before it, possibly with rows added at its end.
C24_AppendOnly == [][IsPrefix(scrape_logs, scrape_logs')]_vars

\* Two passes wrote their audit rows, the second at a later instant.
C24_Witness ==
    /\ Len(scrape_logs) = 2
    /\ scrape_logs[1].scraped_at < scrape_logs[2].scraped_at
    /\ scrape_logs[1] /= scrape_logs[2]

\* The upsert of the current record of overlapping pass p succeeds in the step.
OverlapSaved(p) ==
    /\ pc[p] = "save"
    /\ idx[p] <= Len(msmDeals[p])
    /\ outcomes'[p] = Append(outcomes[p], TRUE)
\* The row the current record of pass p proposes.
CurrentRow(p) == ProposedRow(DealParams(msmDeals[p][idx[p]], Source), clock)

\* C25: passes that overlap are safe under every interleaving of their
\* upserts.  No two rows share a key; an upsert that succeeds is not lost: right
\* after it one row has its key, that row carries its arrangement fee and the
\* current timestamp, and the rows of the other keys are as they were; every
\* record whose upsert succeeded has its key stored when the passes are over;
\* and each pass makes its own single audit write, the log holding the rows
\* written.
C25_OverlapSafe ==
    [][/\ \A i, j \in 1..Len(deals') : i /= j => KeyAt(deals', i) /= KeyAt(deals', j)
       /\ \A p \in Overlapping :
            OverlapSaved(p) =>
                /\ Cardinality(RowsWithKey(deals', DealKey(CurrentRow(p)))) = 1
                /\ \A i \in RowsWithKey(deals', DealKey(CurrentRow(p))) :
                        /\ deals'[i].arrangement_fee = CurrentRow(p).arrangement_fee
                        /\ deals'[i].scraped_at = clock
                /\ \A i \in 1..Len(deals) :
                        KeyAt(deals, i) /= DealKey(CurrentRow(p)) => deals'[i] = deals[i]
       /\ \A p \in Overlapping :
            pc'[p] = "done" =>
                /\ Len(audit'[p]) = 1
                /\ \A k \in 1..Len(outcomes'[p]) :
                        outcomes'[p][k] => StoredKeyOf(msmDeals'[p][k]) \in Keys(deals')
       /\ Len(scrape_logs') = Cardinality({p \in Overlapping :
                                Len(audit'[p]) > 0 /\ audit'[p][1].written})
      ]_vars

\* Two passes are both in the middle of their loops, each with one upsert done
\* and one to go, and the table holds a single row: their records share a key.
C25_Witness ==
    \E p, q \in Overlapping :
        /\ p /= q
        /\ pc[p] = "save" /\ pc[q] = "save"
        /\ Len(msmDeals[p]) = 2 /\ Len(msmDeals[q]) = 2
        /\ idx[p] = 2 /\ idx[q] = 2
        /\ outcomes[p] = <<TRUE>> /\ outcomes[q] = <<TRUE>>
        /\ StoredKeyOf(msmDeals[p][1]) = StoredKeyOf(msmDeals[q][1])
        /\ msmDeals[p][1] /= msmDeals[q][1]
        /\ Len(deals) = 1

\* The last scrape() of the search of task s failed: it rejected, or it caught
\* an error and returned what it had.
AcquisitionFailed(s) ==
    acquisitions[s] > 0 /\ (scrapeResult[s].threw \/ caught[s] /= "")

\* C26 as stated: a search is answered after a bounded number of live
\* acquisitions (the handler has two calls of scrape(), one in its try block
\* and one in its catch block), and when the repository gave nothing and the
\* live acquisition failed the answer is the static sample set, filtered.
C26_BoundedDegrade ==
    \A s \in Searches :
        (pc[s] = "responded" /\ IsSearch(s)) =>
            /\ acquisitions[s] <= 2
            /\ AcquisitionFailed(s) =>
                /\ response[s].status = 200
                /\ response[s].body = FallbackBody(getSampleDeals, query[s])

\* A step of the call of runAllScrapers of task p.
PassStep(p) ==
    \/ Launch(p) \/ LoadPage(p) \/ CloseBrowser(p) \/ PassScraped(p)
    \/ SaveDeal(p) \/ LogSuccess(p) \/ LogError(p)

\* C27: an ingestion pass never raises to its trigger.  A pass is never in a
\* state where an error left runAllScrapers; while it runs it can always take
\* its next step, whatever failed before; and when it is over it has its
\* summary (of at most one source) and has made its audit write.
C27_NeverRaises ==
    \A p \in Passes :
        /\ pc[p] \in {"idle", "launch", "page", "close", "scraped", "save", "logError", "done"}
        /\ pc[p] \notin {"idle", "done"} => ENABLED PassStep(p)
        /\ pc[p] = "done" => (Len(results[p]) <= 1 /\ Len(audit[p]) = 1)

\* A pass is over in which an upsert failed and the audit write failed too.
C27_Witness ==
    \E p \in Passes :
        /\ pc[p] = "done"
        /\ \E k \in 1..Len(outcomes[p]) : ~outcomes[p][k]
        /\ Len(audit[p]) = 1
        /\ ~audit[p][1].written

\* scrape() has settled for the pass of task t (and its locals are not reset yet).
Settled(t) == pc[t] \in {"scraped", "save", "logError", "done"}

\* C28 as stated: once scrape() has settled, no browser session it opened is
\* still open.
C28_AlwaysReleased ==
    \A t \in Passes : Settled(t) => browser[t] /= "open"

\* C28, amended: scrape() awaits browser.close() for every session it opened,
\* on the success path and after a caught error alike.  Once it has settled,
\* the session is closed unless that close itself rejected, and then scrape()
\* rejected with it; no session was opened only when the launch failed.
C28_ReleasedOrRejected ==
    \A t \in Passes :
        Settled(t) =>
            /\ browser[t] = "open" => scrapeResult[t].threw
            /\ ~scrapeResult[t].threw => browser[t] \in {"undefined", "closed"}
            /\ browser[t] = "undefined" => caught[t] = "Failed to launch the browser process"

\* scrape() settled after the navigation failed, and the session is closed.
C28_Witness ==
    \E t \in Passes :
        /\ pc[t] = "scraped"
        /\ caught[t] = "Navigation timeout of 60000 ms exceeded"
        /\ browser[t] = "closed"
        /\ ~scrapeResult[t].threw

\* C29: a query is read-only on durable state: no step of a search or of a
\* listing, the scrape fallback included, changes the deals table or the audit
\* log, so scraped fallback deals are not stored, no audit row is written and
\* no stored row carries a derived metric.
C29_QueriesReadOnly ==
    [][/\ deals' = deals
       /\ scrape_logs' = scrape_logs
       /\ \A k \in 1..Len(deals') : "monthlyPayment" \notin DOMAIN deals'[k]]_vars

\* A search over the empty table was answered with deals it scraped, metrics
\* attached, and the table and the audit log are still empty.
C29_Witness ==
    \E s \in Searches :
        /\ pc[s] = "responded"
        /\ query[s].path = "/api/deals/search"
        /\ sawEmpty[s]
        /\ ~scrapeResult[s].threw
        /\ Len(scrapeResult[s].deals) > 0
        /\ response[s].status = 200
        /\ Len(response[s].body) > 0
        /\ "monthlyPayment" \in DOMAIN response[s].body[1]
        /\ deals = <<>>
        /\ scrape_logs = <<>>

====
